---- MODULE Spec2Model ----
(***************************************************************************)
(* A model of the resource expression lexer and transform evaluator of     *)
(* lib/googlecloudsdk/core/resource/resource_lex.py.                       *)
(*                                                                         *)
(* Strings are sequences of one-character strings; an expression position  *)
(* is the 0-based index of the source, so the character at position i is   *)
(* e[i + 1].  Python values are records of one shape (tag t, string s,     *)
(* integer n, decimal exponent e, list l, keyword bindings k), so that any *)
(* two values can be compared.                                             *)
(***************************************************************************)
EXTENDS Integers, Sequences, FiniteSets, TLC

VARIABLES
  expr,      \* Lexer._expr
  position,  \* Lexer._position
  aliases,   \* Lexer._defaults.aliases: the set of <<name, key>> pairs
  chain,     \* the _Transform object last built
  ret,       \* the last call: its name, its arguments, what it returned or raised
  source,    \* history: what the expression string was written from
  saved,     \* the caller's checkpoint: a position GetPosition returned
  runs       \* the Evaluate calls in progress: the locals of each

vars == <<expr, position, aliases, chain, ret, source, saved, runs>>

---------------------------------------------------------------------------
(* Characters *)

ESCAPE == "\\"
QUOTES == {"'", "\""}
NoQuote == ""
SPACE == " "

RESERVED_OPERATOR_CHARS ==
  {"[", "]", ".", "(", ")", "{", "}", ",", ":", "=", "!", "<", ">", "+", "*",
   "/", "%", "&", "|", "^", "~", "@", "#", ";", "?"}

isspace(c) == c = SPACE

Digits == {"0", "1", "2", "3", "4", "5", "6", "7", "8", "9"}

DigitVal(c) ==
  CASE c = "0" -> 0 [] c = "1" -> 1 [] c = "2" -> 2 [] c = "3" -> 3
    [] c = "4" -> 4 [] c = "5" -> 5 [] c = "6" -> 6 [] c = "7" -> 7
    [] c = "8" -> 8 [] c = "9" -> 9

\* The word characters of the regular expression class \w that the model uses.
WordChars ==
  Digits \cup {"_", "a", "b", "c", "d", "e", "f", "g", "h", "i", "j", "k", "l",
               "m", "n", "o", "p", "q", "r", "s", "t", "u", "v", "w", "x", "y",
               "z", "A", "B", "E", "H", "L", "O"}

\* All strings over alphabet A of length at most n.
Strings(A, n) == UNION {[1..k -> A] : k \in 0..n}

---------------------------------------------------------------------------
(* Python values *)

Val(t, s, n, e, l, k) == [t |-> t, s |-> s, n |-> n, e |-> e, l |-> l, k |-> k]

PyNone == Val("None", <<>>, 0, 0, <<>>, {})
PyStr(s) == Val("str", s, 0, 0, <<>>, {})
PyInt(n) == Val("int", <<>>, n, 0, <<>>, {})
\* The float m * 10^(-e), kept in lowest terms so that equal floats are equal.
RECURSIVE PyFloat(_, _)
PyFloat(m, e) ==
  IF m = 0 THEN Val("float", <<>>, 0, 0, <<>>, {})
  ELSE IF e > 0 /\ m % 10 = 0 THEN PyFloat(m \div 10, e - 1)
  ELSE Val("float", <<>>, m, e, <<>>, {})
PyList(l) == Val("list", <<>>, 0, 0, l, {})
PyBool(b) == Val("bool", <<>>, IF b THEN 1 ELSE 0, 0, <<>>, {})

\* Python truth of a value: None, '', 0, 0.0 and [] are false.
Truthy(v) ==
  CASE v.t = "None" -> FALSE
    [] v.t = "str" -> v.s # <<>>
    [] v.t = "int" -> v.n # 0
    [] v.t = "bool" -> v.n # 0
    [] v.t = "float" -> v.n # 0
    [] v.t = "list" -> v.l # <<>>
    [] OTHER -> TRUE

---------------------------------------------------------------------------
(* int() and float() of a token string *)

RECURSIVE LStrip(_)
LStrip(s) == IF s # <<>> /\ isspace(s[1]) THEN LStrip(Tail(s)) ELSE s

RECURSIVE RStrip(_)
RStrip(s) ==
  IF s # <<>> /\ isspace(s[Len(s)]) THEN RStrip(SubSeq(s, 1, Len(s) - 1)) ELSE s

Strip(s) == RStrip(LStrip(s))

Signed(s) == s # <<>> /\ s[1] \in {"+", "-"}
Unsigned(s) == IF Signed(s) THEN Tail(s) ELSE s
Sign(s) == IF s # <<>> /\ s[1] = "-" THEN -1 ELSE 1

AllDigits(s) == \A i \in 1..Len(s) : s[i] \in Digits

RECURSIVE DigitsValue(_)
DigitsValue(s) ==
  IF s = <<>> THEN 0
  ELSE 10 * DigitsValue(SubSeq(s, 1, Len(s) - 1)) + DigitVal(s[Len(s)])

\* int(s) succeeds: optional blanks, an optional sign, one or more digits.
IsIntLiteral(s) ==
  LET body == Unsigned(Strip(s)) IN body # <<>> /\ AllDigits(body)

IntOf(s) == Sign(Strip(s)) * DigitsValue(Unsigned(Strip(s)))

\* float(s) succeeds, for strings without exponent, inf or nan: digits with at
\* most one point and at least one digit.
IsFloatLiteral(s) ==
  LET body == Unsigned(Strip(s))
      dots == {i \in 1..Len(body) : body[i] = "."}
  IN /\ Cardinality(dots) <= 1
     /\ \A i \in 1..Len(body) : body[i] \in Digits \cup {"."}
     /\ \E i \in 1..Len(body) : body[i] \in Digits

FloatOf(s) ==
  LET body == Unsigned(Strip(s))
      dots == {i \in 1..Len(body) : body[i] = "."}
      dot == IF dots = {} THEN Len(body) + 1 ELSE CHOOSE i \in dots : TRUE
      whole == SubSeq(body, 1, dot - 1)
      frac == SubSeq(body, dot + 1, Len(body))
  IN PyFloat(Sign(Strip(s)) * DigitsValue(whole \o frac), Len(frac))

---------------------------------------------------------------------------
(* Lexer: position, SkipSpace, IsCharacter, IsString *)

NoError == ""

EndOfInput(e, pos) == pos >= Len(e)

\* GetPosition(): the current position.
GetPosition(pos) == pos
\* A slip: SetPosition leaves the position where it is.
SetPositionKept(pos, to) == pos
\* SetPosition(position): the position after it, pos being the one before.
SetPosition(pos, to) == to

\* The position after the white space at pos.
RECURSIVE SkipSpacePos(_, _)
SkipSpacePos(e, pos) ==
  IF ~EndOfInput(e, pos) /\ isspace(e[pos + 1]) THEN SkipSpacePos(e, pos + 1)
  ELSE pos

\* SkipSpace(token): token is "" for None.
SkipSpace(e, pos, token) ==
  LET p == SkipSpacePos(e, pos) IN
  IF ~EndOfInput(e, p) THEN [err |-> NoError, position |-> p, val |-> TRUE]
  ELSE IF token # "" THEN [err |-> "expected", position |-> p, val |-> FALSE]
  ELSE [err |-> NoError, position |-> p, val |-> FALSE]

\* A slip: a peek at the end of the input raises like any other call.
IsCharacterPeekRaises(e, pos, characters, peek, eoi_ok) ==
  IF EndOfInput(e, pos) THEN
    IF eoi_ok THEN [err |-> NoError, position |-> pos, val |-> ""]
    ELSE [err |-> "More tokens expected", position |-> pos, val |-> ""]
  ELSE IF e[pos + 1] \notin characters THEN
    [err |-> NoError, position |-> pos, val |-> ""]
  ELSE [err |-> NoError, position |-> IF peek THEN pos ELSE pos + 1,
        val |-> e[pos + 1]]
\* A slip: the position moves on when the character does not match, and at
\* the end of the input.
IsCharacterSkips(e, pos, characters, peek, eoi_ok) ==
  IF EndOfInput(e, pos) THEN
    IF peek \/ eoi_ok THEN [err |-> NoError, position |-> pos + 1, val |-> ""]
    ELSE [err |-> "More tokens expected", position |-> pos, val |-> ""]
  ELSE IF e[pos + 1] \notin characters THEN
    [err |-> NoError, position |-> pos + 1, val |-> ""]
  ELSE [err |-> NoError, position |-> IF peek THEN pos ELSE pos + 1,
        val |-> e[pos + 1]]
\* IsCharacter(characters, peek, eoi_ok): val is the matching character or "".
IsCharacter(e, pos, characters, peek, eoi_ok) ==
  IF EndOfInput(e, pos) THEN
    IF peek \/ eoi_ok THEN [err |-> NoError, position |-> pos, val |-> ""]
    ELSE [err |-> "More tokens expected", position |-> pos, val |-> ""]
  ELSE IF e[pos + 1] \notin characters THEN
    [err |-> NoError, position |-> pos, val |-> ""]
  ELSE [err |-> NoError, position |-> IF peek THEN pos ELSE pos + 1,
        val |-> e[pos + 1]]

StartsWith(s, name) ==
  Len(s) >= Len(name) /\ SubSeq(s, 1, Len(name)) = name

\* A slip: what follows the name is not tested.
IsStringPrefix(e, pos, name, peek) ==
  LET sk == SkipSpace(e, pos, "")
      i == sk.position
      j == i + Len(name)
  IN IF ~sk.val THEN [err |-> NoError, position |-> i, val |-> FALSE]
     ELSE IF ~StartsWith(SubSeq(e, i + 1, Len(e)), name) THEN
       [err |-> NoError, position |-> i, val |-> FALSE]
     ELSE [err |-> NoError, position |-> IF peek THEN i ELSE j, val |-> TRUE]
\* IsString(name, peek)
IsString(e, pos, name, peek) ==
  LET sk == SkipSpace(e, pos, "")
      i == sk.position
      j == i + Len(name)
  IN IF ~sk.val THEN [err |-> NoError, position |-> i, val |-> FALSE]
     ELSE IF ~StartsWith(SubSeq(e, i + 1, Len(e)), name) THEN
       [err |-> NoError, position |-> i, val |-> FALSE]
     ELSE IF EndOfInput(e, j) \/ isspace(e[j + 1]) \/ e[j + 1] = "(" THEN
       [err |-> NoError, position |-> IF peek THEN i ELSE j, val |-> TRUE]
     ELSE [err |-> NoError, position |-> i, val |-> FALSE]

---------------------------------------------------------------------------
(* Lexer.Token *)

\* The scan state of Token: the index i, the open quote (NoQuote for None),
\* the quoted flag, the token characters (some is FALSE while token is None)
\* and the parenthesis count; low is the least value the count had.
ScanStart(pos) ==
  [i |-> pos, quote |-> NoQuote, quoted |-> FALSE, token |-> <<>>,
   some |-> FALSE, paren_count |-> 0, low |-> 0]

Append1(st, cs) == [st EXCEPT !.token = @ \o cs, !.some = TRUE]

\* The characters an escape pair contributes, c being the escaped character.
EscapeChars(c, quote) ==
  IF c # ESCAPE /\ c # quote /\ (quote # NoQuote \/ c \notin QUOTES)
  THEN <<ESCAPE, c>> ELSE <<c>>

\* The branch conditions of the loop, in the order the loop tests them.
IsEscapePair(e, st) == e[st.i + 1] = ESCAPE /\ ~EndOfInput(e, st.i + 1)
ClosesQuote(st, c) == c = st.quote
\* A slip: a quote character opens a quote even while another quote is open.
OpensQuoteInQuote(st, c) == c \in QUOTES
OpensQuote(st, c) == st.quote = NoQuote /\ c \in QUOTES
\* A slip: parentheses are characters like any other.
IsBalancedParenNever(st, c, balance_parens) == FALSE
IsBalancedParen(st, c, balance_parens) ==
  st.quote = NoQuote /\ balance_parens /\ c \in {"(", ")"}
\* A slip: a terminator ends the token inside a quote too.
IsTerminatorInQuote(st, c, terminators) ==
  st.paren_count = 0 /\ c \in terminators
\* A slip: a terminator ends the token inside parentheses too.
IsTerminatorNested(st, c, terminators) ==
  st.quote = NoQuote /\ c \in terminators
IsTerminator(st, c, terminators) ==
  st.quote = NoQuote /\ st.paren_count = 0 /\ c \in terminators
IsTokenChar(st, c, balance_parens) ==
  st.quote # NoQuote \/ ~isspace(c) \/ (st.some /\ balance_parens)

\* The while loop of Token: the scan state when the loop ends.
RECURSIVE TokenScan(_, _, _, _)
TokenScan(e, st, terminators, balance_parens) ==
  IF EndOfInput(e, st.i) THEN st
  ELSE
    LET c == e[st.i + 1]
        next(s) == TokenScan(e, [s EXCEPT !.i = @ + 1], terminators,
                             balance_parens)
    IN
    IF IsEscapePair(e, st) THEN
      next([Append1(st, EscapeChars(e[st.i + 2], st.quote)) EXCEPT !.i = @ + 1])
    ELSE IF ClosesQuote(st, c) THEN
      next([st EXCEPT !.quote = NoQuote])
    ELSE IF OpensQuote(st, c) THEN
      next([st EXCEPT !.quote = c, !.quoted = TRUE, !.some = TRUE])
    ELSE IF IsBalancedParen(st, c, balance_parens) THEN
      IF c = "(" THEN
        next(Append1([st EXCEPT !.paren_count = @ + 1], <<c>>))
      ELSE IF c \in terminators /\ st.paren_count = 0 THEN st
      ELSE next(Append1([st EXCEPT !.paren_count = @ - 1,
                                   !.low = IF st.paren_count - 1 < @
                                           THEN st.paren_count - 1 ELSE @],
                        <<c>>))
    ELSE IF IsTerminator(st, c, terminators) THEN st
    ELSE IF IsTokenChar(st, c, balance_parens) THEN next(Append1(st, <<c>>))
    ELSE IF st.some THEN st
    ELSE next(st)

\* A slip: a token with quoted parts is converted too.
TokenValueOfQuoted(st, convert) ==
  IF ~st.some THEN PyNone
  ELSE IF convert /\ st.token # <<>> THEN
    IF IsIntLiteral(st.token) THEN PyInt(IntOf(st.token))
    ELSE IF IsFloatLiteral(st.token) THEN FloatOf(st.token)
    ELSE PyStr(st.token)
  ELSE PyStr(st.token)

\* The value Token returns for the scanned characters.
TokenValue(st, convert) ==
  IF ~st.some THEN PyNone
  ELSE IF convert /\ st.token # <<>> /\ ~st.quoted THEN
    IF IsIntLiteral(st.token) THEN PyInt(IntOf(st.token))
    ELSE IF IsFloatLiteral(st.token) THEN FloatOf(st.token)
    ELSE PyStr(st.token)
  ELSE PyStr(st.token)

\* A slip: the position is set before the open quote is reported.
TokenEndAdvanced(e, pos, st, space, convert) ==
  [err |-> IF st.quote # NoQuote THEN "Unterminated quote" ELSE NoError,
   quote |-> st.quote,
   position |-> IF space THEN SkipSpacePos(e, st.i) ELSE st.i,
   val |-> IF st.quote # NoQuote THEN PyNone ELSE TokenValue(st, convert),
   quoted |-> st.quoted, end |-> st.i, paren_count |-> st.paren_count,
   low |-> st.low]
\* The end of Token, st being the scan state after the loop: the error of an
\* open quote, or the new position and the value.
TokenEnd(e, pos, st, space, convert) ==
  IF st.quote # NoQuote THEN
    [err |-> "Unterminated quote", quote |-> st.quote, position |-> pos,
     val |-> PyNone, quoted |-> st.quoted, end |-> st.i,
     paren_count |-> st.paren_count, low |-> st.low]
  ELSE
    [err |-> NoError, quote |-> NoQuote,
     position |-> IF space THEN SkipSpacePos(e, st.i) ELSE st.i,
     val |-> TokenValue(st, convert), quoted |-> st.quoted, end |-> st.i,
     paren_count |-> st.paren_count, low |-> st.low]

\* Token(terminators, balance_parens, space, convert) at position pos.
Token(e, pos, terminators, balance_parens, space, convert) ==
  TokenEnd(e, pos, TokenScan(e, ScanStart(pos), terminators, balance_parens),
           space, convert)

---------------------------------------------------------------------------
(* Lexer.Args *)

Raise(err, pos) == [err |-> err, position |-> pos, val |-> <<>>]
Return(val, pos) == [err |-> NoError, position |-> pos, val |-> val]

\* A slip: a missing argument after a comma is accepted before ')'.
ArgMissingUnlessEnd(arg, required, end) == arg = PyNone /\ end = ""
\* The test that raises 'Argument expected': arg is the token, end the ')'.
ArgMissing(arg, required, end) == arg = PyNone /\ (required \/ end = "")

RECURSIVE ArgsLoop(_, _, _, _, _)

\* After the test for ')': the argument is added, and the loop ends at ')' or
\* goes on after the ','.
ArgsAfterEnd(e, convert, required, args, arg, end) ==
  IF end.err # NoError THEN Raise(end.err, end.position)
  ELSE IF ArgMissing(arg.val, required, end.val) THEN
    Raise("Argument expected", end.position)
  ELSE IF end.val # "" THEN
    Return(IF arg.val # PyNone THEN Append(args, arg.val) ELSE args,
           end.position)
  ELSE
    ArgsLoop(e, IsCharacter(e, end.position, {","}, FALSE, FALSE).position,
             convert, TRUE,
             IF arg.val # PyNone THEN Append(args, arg.val) ELSE args)

\* After the token of one argument.
ArgsAfterToken(e, convert, required, args, arg) ==
  IF arg.err # NoError THEN Raise(arg.err, arg.position)
  ELSE ArgsAfterEnd(e, convert, required, args, arg,
                    IsCharacter(e, arg.position, {")"}, FALSE, FALSE))

\* The while loop of Args from position pos, args collected so far.
ArgsLoop(e, pos, convert, required, args) ==
  ArgsAfterToken(e, convert, required, args,
                 Token(e, pos, {",", ")"}, TRUE, TRUE, convert))

Args(e, pos, convert) == ArgsLoop(e, pos, convert, FALSE, <<>>)

---------------------------------------------------------------------------
(* Lexer.Key *)

\* The alias table is a set of <<name, key>> pairs with one pair per name.
IsAlias(aliasTable, name) == \E a \in aliasTable : a[1] = name
AliasKey(aliasTable, name) == (CHOOSE a \in aliasTable : a[1] = name)[2]

\* A slip: an alias is expanded at any segment, not only the first.
ExpandsAnyAlias(key, is_not_function, name, aliasTable) ==
  is_not_function /\ IsAlias(aliasTable, name)
\* The test that replaces a name by its alias.
ExpandsAlias(key, is_not_function, name, aliasTable) ==
  key = <<>> /\ is_not_function /\ IsAlias(aliasTable, name)

\* A slip: the index token is not converted to a number.
KeyIndexTokenRaw(e, pos) == Token(e, pos, {"]"}, FALSE, TRUE, FALSE)
\* The token between the brackets of an index.
KeyIndexToken(e, pos) == Token(e, pos, {"]"}, FALSE, TRUE, TRUE)

RECURSIVE KeyIndexes(_, _, _)

\* After the index token: the ']' is consumed when it is there.
KeyIndexClose(e, key, index, close) ==
  IF close.err # NoError THEN Raise(close.err, close.position)
  ELSE KeyIndexes(e, close.position, Append(key, index.val))

KeyIndex(e, key, index) ==
  IF index.err # NoError THEN Raise(index.err, index.position)
  ELSE KeyIndexClose(e, key, index,
                     IsCharacter(e, index.position, {"]"}, FALSE, FALSE))

\* The loop over [] and [NUMBER] suffixes.
KeyIndexes(e, pos, key) ==
  IF IsCharacter(e, pos, {"["}, FALSE, TRUE).val = "" THEN Return(key, pos)
  ELSE KeyIndex(e, key, KeyIndexToken(e, pos + 1))

RECURSIVE KeyLoop(_, _, _, _)

\* A slip: a '.' at the end of the input ends the key.
KeySeparatorLenient(e, aliasTable, ix, dot) ==
  IF dot.val = "" THEN Return(ix.val, ix.position)
  ELSE IF EndOfInput(e, dot.position) THEN Return(ix.val, dot.position)
  ELSE KeyLoop(e, dot.position, ix.val, aliasTable)

\* After the indexes of a segment: a '.' continues the key.
KeySeparator(e, aliasTable, ix, dot) ==
  IF dot.val = "" THEN Return(ix.val, ix.position)
  ELSE IF EndOfInput(e, dot.position) THEN
    \* Dangling '.' is not allowed.
    Raise("Non-empty key name expected", dot.position)
  ELSE KeyLoop(e, dot.position, ix.val, aliasTable)

KeyAfterIndexes(e, aliasTable, ix) ==
  IF ix.err # NoError THEN ix
  ELSE KeySeparator(e, aliasTable, ix,
                    IsCharacter(e, ix.position, {"."}, FALSE, TRUE))

\* The rest of one iteration of the loop of Key, after the name.
KeyAfterName(e, pos, key, aliasTable) ==
  IF EndOfInput(e, pos) THEN Return(key, pos)
  ELSE IF IsCharacter(e, pos, {"]"}, FALSE, FALSE).val # "" THEN
    Raise("Unmatched ] in key", pos + 1)
  ELSE KeyAfterIndexes(e, aliasTable, KeyIndexes(e, pos, key))

\* A slip: a '.' is the top level key whatever follows it.
KeyTopLevelAny(e, key, dot) ==
  IF dot.err # NoError THEN Raise(dot.err, dot.position)
  ELSE IF dot.val # "" THEN Return(key, dot.position)
  ELSE Raise("Non-empty key name expected", dot.position)

\* A slip: a '.' is the top level key only at the end of the input.
KeyTopLevelAtEnd(e, key, dot) ==
  IF dot.err # NoError THEN Raise(dot.err, dot.position)
  ELSE IF dot.val # "" /\ EndOfInput(e, dot.position)
  THEN Return(key, dot.position)
  ELSE Raise("Non-empty key name expected", dot.position)

\* No name and no '[': a single . is a valid key that names the top level
\* resource; dot is the result of IsCharacter('.').
KeyTopLevel(e, key, dot) ==
  IF dot.err # NoError THEN Raise(dot.err, dot.position)
  ELSE IF /\ dot.val # ""
          /\ \/ EndOfInput(e, dot.position)
             \/ IsCharacter(e, dot.position, RESERVED_OPERATOR_CHARS,
                            TRUE, TRUE).val # ""
  THEN Return(key, dot.position)
  ELSE Raise("Non-empty key name expected", dot.position)

\* A slip: an index is not accepted where a name is expected.
IndexNeverFollows(e, pos) == FALSE
\* The test for a '[' where no name was found.
IndexFollows(e, pos) == IsCharacter(e, pos, {"["}, TRUE, FALSE).val # ""

\* The key with the name added, or with its alias when it is one.
KeyWithName(key, is_not_function, name, aliasTable) ==
  IF ExpandsAlias(key, is_not_function, name.s, aliasTable)
  THEN key \o AliasKey(aliasTable, name.s)
  ELSE Append(key, name)

\* One iteration of the loop of Key, name being the name token.
KeyName(e, key, aliasTable, name) ==
  IF name.err # NoError THEN Raise(name.err, name.position)
  ELSE IF Truthy(name.val) THEN
    KeyAfterName(e, name.position,
                 KeyWithName(key,
                             IsCharacter(e, name.position, {"("}, TRUE,
                                         TRUE).val = "",
                             name.val, aliasTable),
                 aliasTable)
  ELSE IF ~IndexFollows(e, name.position) THEN
    IF key # <<>> THEN Raise("Non-empty key name expected", name.position)
    ELSE KeyTopLevel(e, key,
                     IsCharacter(e, name.position, {"."}, FALSE, FALSE))
  ELSE KeyAfterName(e, name.position, key, aliasTable)

\* The loop of Key from position pos, key being the segments parsed so far.
KeyLoop(e, pos, key, aliasTable) ==
  IF EndOfInput(e, pos) THEN Return(key, pos)
  ELSE KeyName(e, key, aliasTable,
               Token(e, pos, RESERVED_OPERATOR_CHARS, FALSE, FALSE, FALSE))

Key(e, pos, aliasTable) == KeyLoop(e, pos, <<>>, aliasTable)

\* The list objects a key can be: a list of its own (NewList), or the list
\* that the alias table holds for an alias, named by the alias.
NewList == <<>>

\* The alias that Key expands for the first name at pos, NewList when it
\* expands none.
ExpandedAliasOf(e, aliasTable, name) ==
  IF /\ name.err = NoError /\ Truthy(name.val)
     /\ ExpandsAlias(<<>>, IsCharacter(e, name.position, {"("}, TRUE,
                                       TRUE).val = "",
                     name.val.s, aliasTable)
  THEN name.val.s ELSE NewList
ExpandedAlias(e, pos, aliasTable) ==
  IF EndOfInput(e, pos) THEN NewList
  ELSE ExpandedAliasOf(e, aliasTable,
                       Token(e, pos, RESERVED_OPERATOR_CHARS, FALSE, FALSE,
                             FALSE))

\* A slip: the key is the list of the alias itself, not a copy of it.
KeyListOfAlias(alias) == alias
\* The list that Key returns: the new list of key = [], which
\* key.extend(aliases[name]) fills with the segments of the alias.
KeyList(alias) == NewList

\* The alias table once the list object holds key: a list of its own leaves
\* the table alone.
AliasesWith(aliasTable, list, key) ==
  IF list = NewList THEN aliasTable
  ELSE {a \in aliasTable : a[1] # list} \cup {<<list, key>>}

---------------------------------------------------------------------------
(* GetKeyName *)

DigitChar(d) ==
  CASE d = 0 -> "0" [] d = 1 -> "1" [] d = 2 -> "2" [] d = 3 -> "3"
    [] d = 4 -> "4" [] d = 5 -> "5" [] d = 6 -> "6" [] d = 7 -> "7"
    [] d = 8 -> "8" [] d = 9 -> "9"

RECURSIVE NatText(_)
NatText(n) ==
  IF n < 10 THEN <<DigitChar(n)>>
  ELSE Append(NatText(n \div 10), DigitChar(n % 10))

\* '{0}'.format(n) of an integer
IntText(n) == IF n < 0 THEN <<"-">> \o NatText(-n) ELSE NatText(n)

\* re.search(r'\W', part)
HasNonWord(part) == \E i \in 1..Len(part) : part[i] \notin WordChars

\* part.replace(old, new) for a one-character old
RECURSIVE Replace(_, _, _)
Replace(part, old, new) ==
  IF part = <<>> THEN <<>>
  ELSE (IF part[1] = old THEN new ELSE <<part[1]>>)
         \o Replace(Tail(part), old, new)

\* A slip: the backslashes of a quoted name are not doubled.
QuotedNameUnescaped(part) ==
  <<"\"">> \o Replace(part, "\"", <<ESCAPE, "\"">>) \o <<"\"">>
\* A name with a non-word character, in double quotes.
QuotedName(part) ==
  <<"\"">>
    \o Replace(Replace(part, ESCAPE, <<ESCAPE, ESCAPE>>), "\"", <<ESCAPE, "\"">>)
    \o <<"\"">>

\* parts with text added to its last element
AddToLast(parts, text) ==
  [parts EXCEPT ![Len(parts)] = @ \o text]

\* '[]' or '[N]' joins the part before it, or starts the list of parts.
AddIndex(parts, text) ==
  IF parts # <<>> THEN AddToLast(parts, text) ELSE Append(parts, text)

\* The loop of GetKeyName: the list parts after the segments of key.
RECURSIVE KeyParts(_, _)
KeyParts(key, parts) ==
  IF key = <<>> THEN Return(parts, 0)
  ELSE IF key[1] = PyNone THEN
    KeyParts(Tail(key), AddIndex(parts, <<"[", "]">>))
  ELSE IF key[1].t = "int" THEN
    KeyParts(Tail(key),
             AddIndex(parts, <<"[">> \o IntText(key[1].n) \o <<"]">>))
  ELSE IF key[1].t # "str" THEN Raise("TypeError", 0)
  ELSE IF HasNonWord(key[1].s) THEN
    KeyParts(Tail(key), Append(parts, QuotedName(key[1].s)))
  ELSE KeyParts(Tail(key), Append(parts, key[1].s))

\* sep.join(parts)
RECURSIVE Join(_, _)
Join(parts, sep) ==
  IF parts = <<>> THEN <<>>
  ELSE IF Len(parts) = 1 THEN parts[1]
  ELSE parts[1] \o sep \o Join(Tail(parts), sep)

\* The string of the parts: '.' when there is none.
KeyNameOf(r) ==
  IF r.err # NoError THEN r
  ELSE Return(IF r.val # <<>> THEN Join(r.val, <<".">>) ELSE <<".">>, 0)

GetKeyName(key) == KeyNameOf(KeyParts(key, <<>>))

---------------------------------------------------------------------------
(* The objects of a run *)

\* _Transform(): no conditional and no calls.
NewTransform == [conditional |-> PyNone, transforms |-> <<>>]

\* The state before any call.
NoCall == [op |-> "init"]

\* No checkpoint was taken by the caller, and no Evaluate call is in
\* progress.
NoCheckpoint ==
  [set |-> FALSE, restored |-> FALSE, position |-> 0, end |-> 0,
   first |-> NoCall]
NoRuns == <<>>

\* The source of an expression that was chosen as a string of characters.
PlainText == [kind |-> "text"]

---------------------------------------------------------------------------
(* Bounds and the inputs of the token specification *)

MaxTokLen == 4
MaxNumLen == 3
MaxParenLen == 3

QuoteAlphabet == {"a", SPACE, "'", "\"", ESCAPE, ","}
NumAlphabet == {"4", "0", ".", "-", SPACE, "\""}
ParenAlphabet == {"a", "(", ")", ","}

\* Expressions the documentation and the description give as examples.
DQ == "\""
SQ == "'"
ExAdjacentQuotes ==   \* "foo"" & ""bar"
  <<DQ, "f", "o", "o", DQ, DQ, " ", "&", " ", DQ, DQ, "b", "a", "r", DQ>>
ExMidQuotes ==        \* foo" & "bar
  <<"f", "o", "o", DQ, " ", "&", " ", DQ, "b", "a", "r">>
FooAndBar == <<"f", "o", "o", " ", "&", " ", "b", "a", "r">>
ExEscapedQuote == <<"a", ESCAPE, DQ, "b">>                  \* a\"b
ExUnterminated == <<SQ, "a", "b", "c">>                     \* 'abc
ExUnterminatedOther == <<SQ, "a", "b", DQ, "c">>            \* 'ab"c
ExEscapedOtherQuote == <<SQ, "a", ESCAPE, DQ, "b", SQ>>     \* 'a\"b'
Ex42 == <<"4", "2">>
Ex314 == <<"3", ".", "1", "4">>
ExQuoted42 == <<DQ, "4", "2", DQ>>                          \* "42"
ExPartQuoted42 == <<"4", DQ, "2", DQ>>                      \* 4"2"

ExNestedComma == <<"f", "(", "a", ",", "b", ")", ",", "c", ")">>   \* f(a,b),c)
ExQuotedComma == <<DQ, "a", ",", "b", ")", DQ, ",", "c", ")">>     \* "a,b)",c)
ExSpacedArgs == <<"a", " ", "b", ",", "c", ")">>                   \* a b,c)

TokenExamples ==
  { ExNestedComma, ExQuotedComma, ExSpacedArgs, ExAdjacentQuotes, ExMidQuotes, ExEscapedQuote, ExUnterminated,
    ExUnterminatedOther, ExEscapedOtherQuote, Ex42, Ex314, ExQuoted42,
    ExPartQuoted42 }

TokenExprs ==
  Strings(QuoteAlphabet, MaxTokLen) \cup Strings(NumAlphabet, MaxNumLen)
    \cup Strings(ParenAlphabet, MaxParenLen) \cup TokenExamples

TokenCall(terminators, balance_parens, space, convert) ==
  [terminators |-> terminators, balance_parens |-> balance_parens,
   space |-> space, convert |-> convert]

\* The argument combinations Token is called with: by Key for a name and for
\* an index, by Args, and by the caller of the module's usage example.
TokenCalls ==
  { TokenCall(RESERVED_OPERATOR_CHARS, FALSE, FALSE, FALSE),
    TokenCall({"]"}, FALSE, TRUE, TRUE),
    TokenCall({",", ")"}, TRUE, TRUE, FALSE),
    TokenCall({",", ")"}, TRUE, TRUE, TRUE),
    TokenCall({}, FALSE, TRUE, FALSE),
    TokenCall({}, FALSE, TRUE, TRUE) }

InitToken ==
  /\ expr \in TokenExprs
  /\ position = 0
  /\ aliases = {}
  /\ chain = NewTransform
  /\ ret = NoCall
  /\ saved = NoCheckpoint
  /\ runs = NoRuns
  /\ source = PlainText

\* lex.Token(terminators, balance_parens, space, convert)
CallToken ==
  \E a \in TokenCalls :
    LET r == Token(expr, position, a.terminators, a.balance_parens, a.space,
                   a.convert)
    IN /\ position' = r.position
       /\ ret' = [op |-> "Token", start |-> position, args |-> a,
                  err |-> r.err, quote |-> r.quote, val |-> r.val,
                  quoted |-> r.quoted, end |-> r.end]
       /\ UNCHANGED <<expr, aliases, chain, source, saved, runs>>

NextToken == CallToken

SpecToken == InitToken /\ [][NextToken]_vars

---------------------------------------------------------------------------
(* The key specification: Key and GetKeyName on keys written from a syntax *)

MaxSegs == 2
MaxKeyLen == 3

\* A name as written, the name it denotes, and its canonical spelling.
Name(text, value, canonical) ==
  [text |-> text, value |-> value, canonical |-> canonical]
BareName(text) == Name(text, text, text)

NameTable ==
  { BareName(<<"a">>), BareName(<<"x">>),
    Name(<<"a", "-", "b">>, <<"a", "-", "b">>, <<DQ, "a", "-", "b", DQ>>),
    Name(<<DQ, "a", DQ>>, <<"a">>, <<"a">>),
    Name(<<SQ, "a", ".", "b", SQ>>, <<"a", ".", "b">>,
         <<DQ, "a", ".", "b", DQ>>),
    Name(<<"a", ESCAPE, ESCAPE, "b">>, <<"a", ESCAPE, "b">>,
         <<DQ, "a", ESCAPE, ESCAPE, "b", DQ>>) }

\* An index as written between the brackets, the segment it denotes, and its
\* canonical spelling.
Index(text, value, canonical) ==
  [text |-> text, value |-> value, canonical |-> canonical]
Slice == Index(<<>>, PyNone, <<>>)
Index3 == Index(<<"3">>, PyInt(3), <<"3">>)
IndexLists ==
  {<<>>, <<Slice>>, <<Index3>>, <<Index(<<"0", "3">>, PyInt(3), <<"3">>)>>}

Segment(name, indexes) == [name |-> name, indexes |-> indexes]
Segments == {Segment(n, ix) : n \in NameTable, ix \in IndexLists}

KeySyntax(segs, suffix) == [kind |-> "key", segs |-> segs, suffix |-> suffix]

\* a.b[3].c[].d, x.c, y.x.c, x( and two keys with other indexes and quoting
ExKeyDoc ==
  KeySyntax(<<Segment(BareName(<<"a">>), <<>>),
              Segment(BareName(<<"b">>), <<Index3>>),
              Segment(BareName(<<"c">>), <<Slice>>),
              Segment(BareName(<<"d">>), <<>>)>>, <<>>)
ExKeyAliasFirst ==
  KeySyntax(<<Segment(BareName(<<"x">>), <<>>),
              Segment(BareName(<<"c">>), <<>>)>>, <<>>)
ExKeyAliasLater ==
  KeySyntax(<<Segment(BareName(<<"y">>), <<>>),
              Segment(BareName(<<"x">>), <<>>),
              Segment(BareName(<<"c">>), <<>>)>>, <<>>)
ExKeyNegative ==
  KeySyntax(<<Segment(BareName(<<"a">>),
                      <<Index(<<"-", "1">>, PyInt(-1), <<"-", "1">>), Slice>>)>>,
            <<>>)
ExKeyQuoted ==
  KeySyntax(<<Segment(Name(<<DQ, "a", ESCAPE, DQ, "b", DQ>>, <<"a", DQ, "b">>,
                           <<DQ, "a", ESCAPE, DQ, "b", DQ>>),
                      <<Index(<<"1", "2">>, PyInt(12), <<"1", "2">>)>>)>>,
            <<>>)

KeyExamples ==
  {ExKeyDoc, ExKeyAliasFirst, ExKeyAliasLater, ExKeyNegative, ExKeyQuoted}

KeySources ==
  {KeySyntax(segs, suffix) :
     segs \in UNION {[1..k -> Segments] : k \in 1..MaxSegs},
     suffix \in {<<>>, <<"(">>}}
    \cup KeyExamples

RECURSIVE IndexText(_)
IndexText(indexes) ==
  IF indexes = <<>> THEN <<>>
  ELSE <<"[">> \o indexes[1].text \o <<"]">> \o IndexText(Tail(indexes))

SegmentText(seg) == seg.name.text \o IndexText(seg.indexes)

\* The key string of a syntax: its segments as written, joined by dots.
KeyText(segs) == Join([i \in 1..Len(segs) |-> SegmentText(segs[i])], <<".">>)

KeyAlphabet == {"a", ".", "[", "]", "3", SPACE}

AliasX == {<< <<"x">>, <<PyStr(<<"a">>), PyStr(<<"b">>)>> >>}
AliasTables == {{}, AliasX}

\* Keys that end with a '.' separator and white space: a.b. for one.
DanglingSegments ==
  {Segment(n, ix) :
     n \in {BareName(<<"a">>), BareName(<<"b">>), Name(<<DQ, "a", DQ>>, <<"a">>, <<"a">>)},
     ix \in {<<>>, <<Index3>>}}
DanglingSources ==
  {[kind |-> "dangling", segs |-> segs, spaces |-> spaces] :
     segs \in UNION {[1..k -> DanglingSegments] : k \in 1..MaxSegs},
     spaces \in {<<>>, <<SPACE>>, <<SPACE, SPACE>>}}

\* Keys with segments that have no name: [3], a.[3], .a and a..a for some.
Nameless == Name(<<>>, <<>>, <<>>)
NamelessSegments ==
  {Segment(n, ix) :
     n \in {Nameless, BareName(<<"a">>)}, ix \in {<<>>, <<Index3>>, <<Slice>>}}
NamelessSources ==
  {[kind |-> "nameless", segs |-> segs] :
     segs \in {g \in UNION {[1..k -> NamelessSegments] : k \in 1..MaxSegs} :
                /\ \E i \in 1..Len(g) : g[i].name = Nameless
                /\ g # <<Segment(Nameless, <<>>)>>}}

\* Keys whose index has a ']' right after its content, or has not.
Brackets(text, closed) == [kind |-> "brackets", text |-> text, closed |-> closed]
BracketsSources ==
  { Brackets(<<"a", "[", "1", "]">>, TRUE),
    Brackets(<<"a", "[", "]">>, TRUE),
    Brackets(<<"a", "[", DQ, DQ, "]">>, TRUE),
    Brackets(<<"a", "[", "1", ".", "5", "]">>, TRUE),
    Brackets(<<"a", "[", "1", "]", "[", "2", "]">>, TRUE),
    Brackets(<<"a", "[", "1", " ", "2", "]">>, FALSE),
    Brackets(<<"a", "[", "1", " ", "2", "]", ".", "b">>, FALSE),
    Brackets(<<"a", "[", "1", " ", ".", "b">>, FALSE),
    Brackets(<<"a", "[", "1">>, FALSE),
    Brackets(<<"a", "[">>, FALSE) }

InitKey ==
  /\ \/ /\ source \in KeySources
        /\ expr = KeyText(source.segs) \o source.suffix
     \/ /\ source \in DanglingSources
        /\ expr = KeyText(source.segs) \o <<".">> \o source.spaces
     \/ /\ source \in NamelessSources
        /\ expr = KeyText(source.segs)
     \/ /\ source \in BracketsSources
        /\ expr = source.text
     \/ /\ source = PlainText
        /\ expr \in Strings(KeyAlphabet, MaxKeyLen)
  /\ position = 0
  \* the alias table is read for the names of the key only: the table with
  \* x goes with the keys that name x
  /\ aliases \in AliasTables
  /\ aliases # {} => \E i \in 1..Len(expr) : expr[i] = "x"
  /\ chain = NewTransform
  /\ ret = NoCall
  /\ saved = NoCheckpoint
  /\ runs = NoRuns

\* lex.Key()
CallKey ==
  LET r == Key(expr, position, aliases)
      list == KeyList(ExpandedAlias(expr, position, aliases))
  IN
  /\ position' = r.position
  /\ aliases' = IF r.err = NoError THEN AliasesWith(aliases, list, r.val)
                ELSE aliases
  /\ ret' = [op |-> "Key", start |-> position, err |-> r.err, val |-> r.val,
             list |-> list]
  /\ UNCHANGED <<expr, chain, source, saved, runs>>

\* resource_lex.GetKeyName(key) of the key that Key returned
CallGetKeyName ==
  /\ ret.op = "Key" /\ ret.err = NoError
  /\ LET r == GetKeyName(ret.val) IN
       ret' = [op |-> "GetKeyName", start |-> ret.start, key |-> ret.val,
               err |-> r.err, val |-> r.val]
  /\ UNCHANGED <<expr, position, aliases, chain, source, saved, runs>>

\* Lexer(name).Key() of the name that GetKeyName returned, with no aliases
CallKeyOfName ==
  /\ ret.op = "GetKeyName" /\ ret.err = NoError /\ aliases = {}
  /\ LET r == Key(ret.val, 0, {}) IN
       ret' = [op |-> "KeyOfName", start |-> ret.start, key |-> ret.key,
               name |-> ret.val, err |-> r.err, val |-> r.val]
  /\ UNCHANGED <<expr, position, aliases, chain, source, saved, runs>>

\* The keys a caller takes a checkpoint in.
CheckpointSources ==
  {PlainText} \cup BracketsSources \cup KeyExamples

\* here = lex.GetPosition(): the caller keeps the position
CallGetPosition ==
  /\ ~saved.set /\ source \in CheckpointSources
  /\ saved' = [NoCheckpoint EXCEPT !.set = TRUE,
                                   !.position = GetPosition(position),
                                   !.end = position]
  /\ ret' = [op |-> "GetPosition", val |-> GetPosition(position)]
  /\ UNCHANGED <<expr, position, aliases, chain, source, runs>>

\* lex.SetPosition(here) after the Key call that followed the checkpoint:
\* the caller backs up and keeps what that call gave
CallSetPosition ==
  /\ saved.set /\ ~saved.restored
  /\ ret.op = "Key" /\ ret.start = saved.position
  /\ position' = SetPosition(position, saved.position)
  /\ saved' = [saved EXCEPT !.restored = TRUE, !.first = ret,
                            !.end = position]
  /\ ret' = [op |-> "SetPosition", val |-> saved.position]
  /\ UNCHANGED <<expr, aliases, chain, source, runs>>

NextKey == CallKey \/ CallGetKeyName \/ CallKeyOfName \/ CallGetPosition
             \/ CallSetPosition

SpecKey == InitKey /\ [][NextKey]_vars

---------------------------------------------------------------------------
(* Claims about Token, checked under SpecToken *)

\* A character that is no space, quote, escape, parenthesis or terminator.
IsPlain(c) ==
  c \notin QUOTES \cup {ESCAPE, SPACE} \cup RESERVED_OPERATOR_CHARS

TokenReturned == ret.op = "Token" /\ ret.err = NoError

\* The characters Token consumed, before any trailing space.
Raw == SubSeq(expr, ret.start + 1, ret.end)

\* The whole token: plain characters and then one quoted part that ends
\* the expression are returned as one string, whatever is between the quotes.
TokenJoinsClosedQuote ==
  ret.op = "Token" =>
    \A p \in ret.start..(Len(expr) - 2) :
      ( /\ \A i \in (ret.start + 1)..p : IsPlain(expr[i])
        /\ expr[p + 1] \in QUOTES /\ expr[Len(expr)] = expr[p + 1]
        /\ \A i \in (p + 2)..(Len(expr) - 1) :
             expr[i] \notin {expr[p + 1], ESCAPE} ) =>
        /\ ret.err = NoError
        /\ ret.val = PyStr(SubSeq(expr, ret.start + 1, p)
                             \o SubSeq(expr, p + 2, Len(expr) - 1))

\* C6: Token joins adjacent and mid-token quoted segments into one token with
\* the quote characters removed; while a quote is open every character other
\* than that quote and the escape (space, terminator, parenthesis, the other
\* quote) is appended and does not end the token.
TokenJoinsQuotedParts ==
  /\ TokenJoinsClosedQuote
  /\ TokenReturned =>
    /\ expr \in {ExAdjacentQuotes, ExMidQuotes} /\ ret.start = 0 =>
         ret.val = PyStr(FooAndBar) /\ ret.end = Len(expr)
    /\ \A p \in ret.start..(Len(expr) - 1) :
         ( /\ \A i \in (ret.start + 1)..p : IsPlain(expr[i])
           /\ expr[p + 1] \in QUOTES ) =>
           \A j \in (p + 1)..Len(expr) :
             (\A i \in (p + 2)..j : expr[i] \notin {expr[p + 1], ESCAPE}) =>
               /\ ret.end >= j
               /\ ret.quoted
               /\ ret.val.t = "str"
               /\ Len(ret.val.s) >= j - 1 - ret.start
               /\ SubSeq(ret.val.s, 1, j - 1 - ret.start)
                    = SubSeq(expr, ret.start + 1, p) \o SubSeq(expr, p + 2, j)

\* C6 witness: the adjacent quotes example was tokenized, and a quoted part
\* holding a space, a terminator and a parenthesis was read as one token.
TokenJoinsQuotedPartsWitness ==
  /\ TokenReturned
  /\ \/ expr = ExAdjacentQuotes /\ ret.val = PyStr(FooAndBar)
     \/ expr = <<DQ, ",", " ", DQ>> /\ ret.args.terminators = {",", ")"}
          /\ ret.val = PyStr(<<",", " ">>)

\* What the documentation says an escape pair contributes.
DocumentedEscape(c) ==
  IF c = ESCAPE THEN <<ESCAPE>>
  ELSE IF c \in QUOTES THEN <<c>>
  ELSE <<ESCAPE, c>>

\* C7: in every scanning state an escape followed by a character consumes both
\* and contributes a backslash for backslash-backslash, the bare quote for an
\* escaped single or double quote, and backslash plus the character otherwise;
\* an escaped quote neither opens nor closes a quote nor marks the token quoted.
EscapePairsInEveryState ==
  TokenReturned =>
    /\ expr = ExEscapedQuote /\ ret.start = 0 =>
         ret.val = PyStr(<<"a", DQ, "b">>) /\ ~ret.quoted
    \* the pair follows plain characters, with no quote open (q = 0) or
    \* directly after the quote that opens the token (q = 1)
    /\ \A q \in {0, 1} : \A p \in (ret.start + q)..(Len(expr) - 2) :
         ( /\ q = 1 => expr[ret.start + 1] \in QUOTES
           /\ \A i \in (ret.start + q + 1)..p : IsPlain(expr[i])
           /\ expr[p + 1] = ESCAPE ) =>
           LET plain == SubSeq(expr, ret.start + q + 1, p)
               d == plain \o DocumentedEscape(expr[p + 2])
           IN /\ ret.end >= p + 2
              /\ ret.val.t = "str"
              /\ Len(ret.val.s) >= Len(d)
              /\ SubSeq(ret.val.s, 1, Len(d)) = d
              /\ (q = 0 /\ \A i \in (p + 3)..Len(expr) : IsPlain(expr[i]))
                   => ~ret.quoted

\* C8: Token(convert=True) returns a number exactly when the token has no
\* quoted part and parses as an integer, else as a float; a token with a quoted
\* part, and any token with convert=False, is returned as a string.
ConvertsUnquotedNumbers ==
  TokenReturned =>
    LET text == LStrip(Raw)
        numeric == IsIntLiteral(text) \/ IsFloatLiteral(text)
    IN /\ ret.val.t \in {"int", "float"} <=> (ret.args.convert /\ numeric)
       /\ ret.val.t = "int" =>
            IsIntLiteral(text) /\ ret.val = PyInt(IntOf(text))
       /\ ret.val.t = "float" =>
            ~IsIntLiteral(text) /\ ret.val = FloatOf(text)
       /\ (\E i \in 1..Len(Raw) : Raw[i] \in QUOTES) =>
            ret.val.t \notin {"int", "float"}
       /\ ret.start = 0 /\ ret.args.convert =>
            /\ expr = Ex42 => ret.val = PyInt(42)
            /\ expr = Ex314 => ret.val = PyFloat(314, 2)
            /\ expr \in {ExQuoted42, ExPartQuoted42} => ret.val = PyStr(Ex42)
       /\ ret.start = 0 /\ ~ret.args.convert /\ expr = Ex42 =>
            ret.val = PyStr(Ex42)

\* C8 witness: 42 was converted and the quoted "42" was not.
ConvertsUnquotedNumbersWitness ==
  /\ TokenReturned /\ ret.args.convert /\ ret.start = 0
  /\ \/ expr = Ex42 /\ ret.val = PyInt(42)
     \/ expr = ExQuoted42 /\ ret.val = PyStr(Ex42)

\* The quote that is open after the characters of s, q being open before them.
RECURSIVE QuoteAtEnd(_, _)
QuoteAtEnd(s, q) ==
  IF s = <<>> THEN q
  ELSE IF s[1] = ESCAPE /\ Len(s) >= 2 THEN QuoteAtEnd(SubSeq(s, 3, Len(s)), q)
  ELSE IF s[1] = q THEN QuoteAtEnd(Tail(s), NoQuote)
  ELSE IF q = NoQuote /\ s[1] \in QUOTES THEN QuoteAtEnd(Tail(s), s[1])
  ELSE QuoteAtEnd(Tail(s), q)

\* C10: Token raises whenever end of input is reached while a quote is open,
\* and the error names the character that opened the quote, not another quote
\* character inside it.
UnterminatedNamesOpeningQuote ==
  ret.op = "Token" =>
    LET rest == SubSeq(expr, ret.start + 1, Len(expr)) IN
    /\ ret.err # NoError =>
         /\ ret.err = "Unterminated quote"
         /\ ret.quote \in QUOTES
         /\ ret.quote = QuoteAtEnd(rest, NoQuote)
    /\ ret.err = NoError /\ ret.end = Len(expr) =>
         QuoteAtEnd(rest, NoQuote) = NoQuote
    /\ \A p \in ret.start..(Len(expr) - 1) :
         ( /\ \A i \in (ret.start + 1)..p : IsPlain(expr[i])
           /\ expr[p + 1] \in QUOTES
           /\ \A i \in (p + 2)..Len(expr) :
                expr[i] \notin {expr[p + 1], ESCAPE} ) =>
           ret.err = "Unterminated quote" /\ ret.quote = expr[p + 1]
    /\ expr \in {ExUnterminated, ExUnterminatedOther} /\ ret.start = 0 =>
         ret.err = "Unterminated quote" /\ ret.quote = SQ

\* C10 witness: a single quote holding a double quote was left open.
UnterminatedNamesOpeningQuoteWitness ==
  /\ ret.op = "Token" /\ expr = ExUnterminatedOther
  /\ ret.err = "Unterminated quote" /\ ret.quote = SQ

---------------------------------------------------------------------------
(* Claims about Key and GetKeyName, checked under SpecKey *)

\* Key was called at the start of a key written from a syntax.
KeyOfSyntax == ret.op = "Key" /\ ret.start = 0 /\ source.kind = "key"

IndexValues(indexes) == [i \in 1..Len(indexes) |-> indexes[i].value]

\* The segments a syntax denotes, in source order.
RECURSIVE SyntaxKey(_)
SyntaxKey(segs) ==
  IF segs = <<>> THEN <<>>
  ELSE <<PyStr(segs[1].name.value)>> \o IndexValues(segs[1].indexes)
         \o SyntaxKey(Tail(segs))

KeyABC == <<PyStr(<<"a">>), PyStr(<<"b">>), PyStr(<<"c">>)>>

\* C3: Key returns the segments of a dotted key with bracket suffixes in
\* source order, a name as a string, [N] as the integer N and [] as None, and
\* leaves the cursor at the end of the key; a.b[3].c[].d yields
\* [a, b, 3, c, None, d] at end of input.
KeySegmentsInSourceOrder ==
  (KeyOfSyntax /\ ~IsAlias(aliases, source.segs[1].name.value)) =>
    /\ ret.err = NoError
    /\ ret.val = SyntaxKey(source.segs)
    /\ position = Len(KeyText(source.segs))
    /\ source = ExKeyDoc =>
         /\ ret.val = <<PyStr(<<"a">>), PyStr(<<"b">>), PyInt(3),
                        PyStr(<<"c">>), PyNone, PyStr(<<"d">>)>>
         /\ position = Len(expr)

\* C3 witness: a.b[3].c[].d was parsed.
KeySegmentsInSourceOrderWitness ==
  /\ KeyOfSyntax /\ source = ExKeyDoc /\ position = 12
  /\ Len(ret.val) = 6 /\ ret.val[3] = PyInt(3) /\ ret.val[5] = PyNone

\* C4: a name is replaced by its alias only when it is the first segment
\* parsed and is not immediately followed by '('; with x -> [a, b], x.c
\* parses to [a, b, c] and y.x.c to [y, x, c].
AliasOnlyAsFirstName ==
  KeyOfSyntax =>
    LET first == source.segs[1]
        called == /\ Len(source.segs) = 1 /\ first.indexes = <<>>
                  /\ source.suffix = <<"(">>
        head == IF IsAlias(aliases, first.name.value) /\ ~called
                THEN AliasKey(aliases, first.name.value)
                ELSE <<PyStr(first.name.value)>>
    IN /\ ret.err = NoError
       /\ ret.val = head \o IndexValues(first.indexes)
                      \o SyntaxKey(Tail(source.segs))
       /\ aliases = AliasX /\ source = ExKeyAliasFirst => ret.val = KeyABC
       /\ aliases = AliasX /\ source = ExKeyAliasLater =>
            ret.val = <<PyStr(<<"y">>), PyStr(<<"x">>), PyStr(<<"c">>)>>

\* C4 witness: x.c was parsed with the alias x -> [a, b].
AliasOnlyAsFirstNameWitness ==
  /\ KeyOfSyntax /\ aliases = AliasX /\ source = ExKeyAliasFirst
  /\ ret.val = KeyABC

\* GetKeyName was applied to the key parsed from a whole key string, with no
\* aliases.
NameOfParsedKey ==
  /\ ret.op = "GetKeyName" /\ ret.start = 0 /\ aliases = {}
  /\ source.kind = "key" /\ source.suffix = <<>>

RECURSIVE IndexCanonical(_)
IndexCanonical(indexes) ==
  IF indexes = <<>> THEN <<>>
  ELSE <<"[">> \o indexes[1].canonical \o <<"]">>
         \o IndexCanonical(Tail(indexes))

\* C5 as claimed: GetKeyName(Key(k)) is k with every name that has a non-word
\* character in double quotes and every other segment as written.
RoundTripAsWritten ==
  NameOfParsedKey =>
    /\ ret.err = NoError
    /\ ret.val = Join([i \in 1..Len(source.segs) |->
                         source.segs[i].name.canonical
                           \o IndexText(source.segs[i].indexes)], <<".">>)

\* C5 as amended: GetKeyName(Key(k)) is k with every name unquoted, and in
\* double quotes (backslash and double quote escaped) when it has a non-word
\* character, and every index written as the decimal numeral of its value.
RoundTripCanonical ==
  /\ NameOfParsedKey =>
       /\ ret.err = NoError
       /\ ret.val = Join([i \in 1..Len(source.segs) |->
                            source.segs[i].name.canonical
                              \o IndexCanonical(source.segs[i].indexes)],
                         <<".">>)
  /\ (ret.op = "GetKeyName" /\ ret.start = 0 /\ expr = <<".">>) =>
       ret.val = <<".">>

\* C5 witness: a key with a quoted name and an index written 03 was rendered.
RoundTripCanonicalWitness ==
  /\ NameOfParsedKey
  /\ expr = <<SQ, "a", ".", "b", SQ, "[", "0", "3", "]">>
  /\ ret.val = <<DQ, "a", ".", "b", DQ, "[", "3", "]">>

---------------------------------------------------------------------------
(* Transform functions: the symbols table of the projection defaults *)

LowerLetters == <<"a", "b", "c", "d", "e", "f", "g", "h", "i", "j", "k", "l",
                  "m", "n", "o", "p", "q", "r", "s", "t", "u", "v", "w", "x",
                  "y", "z">>
UpperLetters == <<"A", "B", "C", "D", "E", "F", "G", "H", "I", "J", "K", "L",
                  "M", "N", "O", "P", "Q", "R", "S", "T", "U", "V", "W", "X",
                  "Y", "Z">>

UpperChar(c) ==
  IF \E i \in 1..26 : LowerLetters[i] = c
  THEN UpperLetters[CHOOSE i \in 1..26 : LowerLetters[i] = c]
  ELSE c

\* str.upper()
Upper(s) == [i \in 1..Len(s) |-> UpperChar(s[i])]

\* The bound of a slice: negative bounds count from the end, and both are
\* clipped to the sequence.
SliceBound(n, len) ==
  LET m == IF n < 0 THEN n + len ELSE n
  IN IF m < 0 THEN 0 ELSE IF m > len THEN len ELSE m

\* seq[a:b]
PySlice(seq, a, b) ==
  SubSeq(seq, SliceBound(a, Len(seq)) + 1, SliceBound(b, Len(seq)))

\* The result of a function call: a value, or the exception it raises.
Raised(err) == [err |-> err, val |-> PyNone]
Returned(val) == [err |-> NoError, val |-> val]

\* The keyword arguments of a call are a set of <<name, value>> pairs with
\* one pair per name.
HasKw(kwargs, name) == \E p \in kwargs : p[1] = name
KwVal(kwargs, name) == (CHOOSE p \in kwargs : p[1] = name)[2]
SetKw(kwargs, name, val) ==
  {p \in kwargs : p[1] # name} \cup {<<name, val>>}

\* upper(r): r in upper case.
ApplyUpper(params, kwargs) ==
  IF Len(params) # 1 \/ kwargs # {} THEN Raised("TypeError")
  ELSE IF params[1].t # "str" THEN Raised("AttributeError")
  ELSE Returned(PyStr(Upper(params[1].s)))

\* slice(r, start, end): r[int(start):int(end)].
ApplySlice(params, kwargs) ==
  IF Len(params) # 3 \/ kwargs # {} THEN Raised("TypeError")
  ELSE IF \E i \in {2, 3} : params[i].t # "str" THEN Raised("TypeError")
  ELSE IF \E i \in {2, 3} : ~IsIntLiteral(params[i].s) THEN
    Raised("ValueError")
  ELSE IF params[1].t = "str" THEN
    Returned(PyStr(PySlice(params[1].s, IntOf(params[2].s),
                           IntOf(params[3].s))))
  ELSE IF params[1].t = "list" THEN
    Returned(PyList(PySlice(params[1].l, IntOf(params[2].s),
                            IntOf(params[3].s))))
  ELSE Raised("TypeError")

RECURSIVE JoinStrs(_, _)
JoinStrs(items, sep) ==
  IF items = <<>> THEN <<>>
  ELSE IF Len(items) = 1 THEN items[1].s
  ELSE items[1].s \o sep \o JoinStrs(Tail(items), sep)

SepName == <<"s", "e", "p">>

\* join(r, sep='/'): sep.join(r).
ApplyJoin(params, kwargs) ==
  IF \/ Len(params) \notin {1, 2}
     \/ \E p \in kwargs : p[1] # SepName
     \/ Len(params) = 2 /\ HasKw(kwargs, SepName)
  THEN Raised("TypeError")
  ELSE LET sep == IF Len(params) = 2 THEN params[2]
                  ELSE IF HasKw(kwargs, SepName) THEN KwVal(kwargs, SepName)
                  ELSE PyStr(<<"/">>)
           r == params[1]
           items == IF r.t = "str" THEN [i \in 1..Len(r.s) |-> PyStr(<<r.s[i]>>)]
                    ELSE r.l
       IN IF sep.t # "str" \/ r.t \notin {"str", "list"} THEN
            Raised("TypeError")
          ELSE IF \E i \in 1..Len(items) : items[i].t # "str" THEN
            Raised("TypeError")
          ELSE Returned(PyStr(JoinStrs(items, sep.s)))

\* always(r), map(r) and if(r, expr) return r.
ApplyMarker(params, kwargs) ==
  IF params = <<>> THEN Raised("TypeError") ELSE Returned(params[1])

TransformAlways == "TransformAlways"
TransformMap == "TransformMap"
TransformIf == "TransformIf"

\* func(*params, **kwargs)
Apply(func, params, kwargs) ==
  CASE func = "upper" -> ApplyUpper(params, kwargs)
    [] func = "slice" -> ApplySlice(params, kwargs)
    [] func = "join" -> ApplyJoin(params, kwargs)
    [] OTHER -> ApplyMarker(params, kwargs)

\* resource_property.IsListLike(obj)
IsListLike(obj) == obj.t = "list"

Chars(str) ==
  CASE str = "upper" -> <<"u", "p", "p", "e", "r">>
    [] str = "slice" -> <<"s", "l", "i", "c", "e">>
    [] str = "join" -> <<"j", "o", "i", "n">>
    [] str = "always" -> <<"a", "l", "w", "a", "y", "s">>
    [] str = "map" -> <<"m", "a", "p">>
    [] str = "if" -> <<"i", "f">>
    [] str = "nosuch" -> <<"n", "o", "s", "u", "c", "h">>

Symbol(name, func, func_defaults, projection_arg) ==
  [name |-> Chars(name), func |-> func, func_defaults |-> func_defaults,
   projection_arg |-> projection_arg]

\* defaults.symbols: the functions by name, each with whether it has
\* parameters with defaults and whether its doc asks for the projection.
Symbols ==
  { Symbol("upper", "upper", FALSE, FALSE),
    Symbol("slice", "slice", FALSE, FALSE),
    Symbol("join", "join", TRUE, FALSE),
    Symbol("always", TransformAlways, FALSE, FALSE),
    Symbol("map", TransformMap, FALSE, FALSE),
    Symbol("if", TransformIf, FALSE, FALSE) }

InSymbols(func_name) ==
  func_name.t = "str" /\ \E y \in Symbols : y.name = func_name.s
SymbolOf(func_name) == CHOOSE y \in Symbols : y.name = func_name.s

\* The projection defaults as an argument value.
Defaults == Val("ProjectionSpec", <<>>, 0, 0, <<>>, {})

---------------------------------------------------------------------------
(* _TransformCall and _Transform *)

\* _TransformCall(name, func, active, map_transform, args, kwargs,
\* restriction); a map_transform of None is FALSE here.
TransformCall(name, func, active, map_transform, args, kwargs, restriction) ==
  [name |-> name, func |-> func, active |-> active,
   map_transform |-> map_transform, args |-> args, kwargs |-> kwargs,
   restriction |-> restriction]

\* _Transform.Add(transform)
Add(calls, transform) ==
  [calls EXCEPT !.transforms = Append(@, transform)]

\* _Transform.SetConditional(expr)
SetConditional(calls, cond) == [calls EXCEPT !.conditional = cond]

\* _Transform.Name(): the name of the last call, '' when there is none.
TransformName(calls) ==
  IF calls.transforms = <<>> THEN PyStr(<<>>)
  ELSE calls.transforms[Len(calls.transforms)].name

\* A slip: the restriction attribute of the last call is set.
SetRestrictionLast(calls) ==
  [calls EXCEPT !.transforms[Len(calls.transforms)].restriction = TRUE]
\* _Transform.SetRestriction() on a list that has a first call.
SetRestriction(calls) ==
  [calls EXCEPT !.transforms[1].restriction = TRUE]

\* MakeTransform(func_name, func, args, kwargs, restriction): a list of the
\* one call, with the default active level and no mapping.
MakeTransform(func_name, func, args, kwargs, restriction) ==
  Add(NewTransform,
      TransformCall(func_name, func, PyInt(0), FALSE, args, kwargs,
                    restriction))

\* _Transform.active: the active level of the first call; there is none to
\* ask in an empty list.
Active(calls) ==
  IF calls.transforms = <<>> THEN Raised("IndexError")
  ELSE Returned(calls.transforms[1].active)

\* A slip: a list without calls counts as active at every level.
IsActiveOrEmpty(calls, active) ==
  IF calls.transforms = <<>> THEN PyBool(TRUE)
  ELSE PyBool(Active(calls).val \in {PyNone, active})
\* _Transform.IsActive(active): the empty list itself when there are no
\* calls, else whether the active level is None or active.
IsActive(calls, active) ==
  IF calls.transforms = <<>> THEN PyList(<<>>)
  ELSE PyBool(Active(calls).val \in {PyNone, active})

\* A slip: the call gets the object but not its stored arguments.
CallFuncWithoutArgs(transform, params) ==
  Apply(transform.func, params, {})
\* transform.func(..., *transform.args, **transform.kwargs), params being the
\* object when the call takes one.
CallFunc(transform, params) ==
  Apply(transform.func, params \o transform.args, transform.kwargs)

\* A slip: the object is put in front of the stored arguments to make the
\* call.
StoredArgsWithObject(transform, params) == params \o transform.args
\* The stored arguments of a call after func(..., *transform.args): the star
\* hands the function a copy, and the list the call holds stays as it was.
StoredArgs(transform, params) == transform.args

\* The loop over the items of a list: the transform of each item is added to
\* obj, and an exception ends the loop.
RECURSIVE MapItems(_, _, _)
MapItemsAdd(transform, items, obj, r) ==
  IF r.err # NoError THEN r
  ELSE MapItems(transform, Tail(items), Append(obj, r.val))

MapItems(transform, items, obj) ==
  IF items = <<>> THEN Returned(PyList(obj))
  ELSE MapItemsAdd(transform, items, obj, CallFunc(transform, <<items[1]>>))

\* A slip: a call without an active level is not applied.
AppliesToObjectIfActive(transform, obj) ==
  transform.active # PyNone /\ (Truthy(obj) \/ ~transform.map_transform)
\* A slip: a mapped call is applied to any object that is not a list.
AppliesToObjectAlways(transform, obj) == TRUE
\* The test of the elif in Evaluate.
AppliesToObject(transform, obj) == Truthy(obj) \/ ~transform.map_transform

\* A slip: a restriction gets the object like any other call.
TakesObjectAlways(transform) == TRUE
\* Whether the call gets the object as its first argument: a restriction
\* does not.
TakesObject(transform) == ~transform.restriction

\* The body of the loop of Evaluate for one transform.
EvaluateCall(transform, obj) ==
  IF transform.map_transform /\ IsListLike(obj) THEN
    MapItems(transform, obj.l, <<>>)
  ELSE IF AppliesToObject(transform, obj) THEN
    IF TakesObject(transform) THEN CallFunc(transform, <<obj>>)
    ELSE CallFunc(transform, <<>>)
  ELSE Returned(obj)

\* The loop of Evaluate over transforms, r being the object so far.
RECURSIVE EvaluateLoop(_, _)
EvaluateLoop(transforms, r) ==
  IF r.err # NoError \/ transforms = <<>> THEN r
  ELSE EvaluateLoop(Tail(transforms), EvaluateCall(transforms[1], r.val))

\* A slip: the value is what the calls made, None when there are none.
EvaluateOfCalls(calls, obj) ==
  IF calls.transforms = <<>> THEN Returned(PyNone)
  ELSE EvaluateLoop(calls.transforms, Returned(obj))
\* _Transform.Evaluate(obj)
Evaluate(calls, obj) == EvaluateLoop(calls.transforms, Returned(obj))

---------------------------------------------------------------------------
(* Lexer._ParseTransform and Lexer.Transform *)

\* The position of the first '=' of s, or 0.
RECURSIVE FindEq(_, _)
FindEq(s, i) ==
  IF i > Len(s) THEN 0 ELSE IF s[i] = "=" THEN i ELSE FindEq(s, i + 1)

\* The loop that separates the args from the kwargs.
RECURSIVE SplitArgs(_, _, _)
\* A slip: an argument with '=' is kept as a positional argument.
SplitArgPositional(arg, args, kwargs, eq) ==
  [args |-> Append(args, arg), kwargs |-> kwargs]

SplitArg(arg, args, kwargs, eq) ==
  IF eq # 0 THEN
    [args |-> args,
     kwargs |-> SetKw(kwargs, SubSeq(arg.s, 1, eq - 1),
                      PyStr(SubSeq(arg.s, eq + 1, Len(arg.s))))]
  ELSE [args |-> Append(args, arg), kwargs |-> kwargs]

SplitArgsNext(rest, split) == SplitArgs(rest, split.args, split.kwargs)

SplitArgs(list, args, kwargs) ==
  IF list = <<>> THEN [args |-> args, kwargs |-> kwargs]
  ELSE SplitArgsNext(Tail(list),
                     SplitArg(list[1], args, kwargs, FindEq(list[1].s, 1)))

\* The call made from the parsed args, a being the result of Args().
ParsedCall(symbol, func_name, active, map_transform, restriction, a) ==
  LET first == IF symbol.projection_arg THEN <<Defaults>> ELSE <<>>
      split == IF symbol.func_defaults THEN SplitArgs(a.val, first, {})
               ELSE [args |-> first \o a.val, kwargs |-> {}]
  IN IF a.err # NoError THEN Raise(a.err, a.position)
     ELSE Return(TransformCall(func_name, symbol.func, active, map_transform,
                               split.args, split.kwargs, restriction),
                 a.position)

\* A slip: the arguments are parsed before the name is looked up.
ParseTransformArgsFirst(e, pos, func_name, active, map_transform, restriction) ==
  IF ~InSymbols(func_name) THEN
    Raise("Unknown transform function", Args(e, pos, FALSE).position)
  ELSE ParsedCall(SymbolOf(func_name), func_name, active, map_transform,
                  restriction, Args(e, pos, FALSE))

\* _ParseTransform(func_name, active, map_transform, restriction)
ParseTransform(e, pos, func_name, active, map_transform, restriction) ==
  IF ~InSymbols(func_name) THEN Raise("Unknown transform function", pos)
  ELSE ParsedCall(SymbolOf(func_name), func_name, active, map_transform,
                  restriction, Args(e, pos, FALSE))

RECURSIVE TransformLoop(_, _, _, _, _, _, _, _)

\* After IsCharacter('('), call being the key before it.
TransformParen(e, aliasTable, calls, active, map_transform, call, paren) ==
  IF paren.err # NoError THEN Raise(paren.err, paren.position)
  ELSE IF paren.val = "" THEN
    Raise("Transform function expected", paren.position)
  ELSE IF Len(call.val) # 1 THEN
    \* '.'.join(call) takes strings only.
    IF \A i \in 1..Len(call.val) : call.val[i].t = "str"
    THEN Raise("Unknown transform function", paren.position)
    ELSE Raise("TypeError", paren.position)
  ELSE TransformLoop(e, paren.position, aliasTable, calls,
                     call.val[Len(call.val)], active, map_transform, FALSE)

\* After Key(), call being its result.
TransformKey(e, aliasTable, calls, active, map_transform, call) ==
  IF call.err # NoError THEN Raise(call.err, call.position)
  ELSE TransformParen(e, aliasTable, calls, active, map_transform, call,
                      IsCharacter(e, call.position, {"("}, FALSE, FALSE))

\* After a call: a '.' continues the chain; dot is the result of
\* IsCharacter('.', eoi_ok=True).
TransformDot(e, aliasTable, calls, active, map_transform, dot) ==
  IF dot.val = "" THEN Return(calls, dot.position)
  ELSE TransformKey(e, aliasTable, calls, active, map_transform,
                    Key(e, dot.position, aliasTable))

TransformNext(e, pos, aliasTable, calls, active, map_transform) ==
  TransformDot(e, aliasTable, calls, active, map_transform,
               IsCharacter(e, pos, {"."}, FALSE, TRUE))

\* A slip: if() is accepted with more than one argument.
NotOneConditionalNone(args) == Len(args) = 0
\* The test that raises 'Conditional filter expression expected'.
NotOneConditional(args) == Len(args) # 1

\* A slip: map() applies to every call after it.
MapAfterAddKept(map_transform) == map_transform
\* map() applies to the next transform: the flag after a call is added.
MapAfterAdd(map_transform) == FALSE

\* The active level after always(): None, always active.
ActiveAfterAlways(active) == PyNone

\* What the loop of Transform does with the call it parsed.
TransformParsed(e, aliasTable, calls, active, map_transform, t) ==
  IF t.err # NoError THEN Raise(t.err, t.position)
  ELSE IF t.val.func = TransformAlways THEN
    TransformNext(e, t.position, aliasTable, calls, ActiveAfterAlways(active),
                  map_transform)
  ELSE IF t.val.func = TransformMap THEN
    TransformNext(e, t.position, aliasTable, calls, active, TRUE)
  ELSE IF t.val.func = TransformIf THEN
    IF NotOneConditional(t.val.args) THEN
      Raise("Conditional filter expression expected", t.position)
    ELSE TransformNext(e, t.position, aliasTable,
                       SetConditional(calls, t.val.args[1]), active,
                       map_transform)
  ELSE TransformNext(e, t.position, aliasTable, Add(calls, t.val), active,
                     MapAfterAdd(map_transform))

\* The loop of Transform from position pos.
TransformLoop(e, pos, aliasTable, calls, func_name, active, map_transform, restriction) ==
  TransformParsed(e, aliasTable, calls, active, map_transform,
                  ParseTransform(e, pos, func_name, active, map_transform,
                                 restriction))

\* Lexer.Transform(func_name, active, restriction)
Transform(e, pos, aliasTable, func_name, active, restriction) ==
  TransformLoop(e, pos, aliasTable, NewTransform, func_name, active, FALSE,
                restriction)

---------------------------------------------------------------------------
(* The call specification: argument lists and transform chains *)

MaxArgs == 3
MaxArgLen == 3
MaxCalls == 2
MaxCallArgs == 2

\* An argument as written, and the number it converts to (None when it is
\* not a number); an argument that is missing is written as nothing.
Arg(text, number) == [text |-> text, number |-> number]
Missing == Arg(<<>>, PyNone)
ArgTable ==
  { Missing, Arg(<<"1">>, PyInt(1)), Arg(<<"2">>, PyInt(2)),
    Arg(<<"3">>, PyInt(3)), Arg(<<"a">>, PyNone) }

ArgsSyntax(args) == [kind |-> "args", args |-> args]

\* (f(a,b),a): an argument with a balanced ',' of its own
ExArgsNested ==
  ArgsSyntax(<<Arg(<<"f", "(", "a", ",", "b", ")">>, PyNone),
               Arg(<<"a">>, PyNone)>>)

\* The argument lists; a list of one missing argument is the empty list.
ArgsSources ==
  {ArgsSyntax(args) :
     args \in UNION {[1..k -> ArgTable] : k \in 0..MaxArgs} \ {<<Missing>>}}
    \cup {ExArgsNested}

\* The arg list of a syntax: ( the arguments joined by commas ).
ArgsText(args) ==
  <<"(">> \o Join([i \in 1..Len(args) |-> args[i].text], <<",">>) \o <<")">>

ArgsAlphabet == {"1", ",", ")", "(", SPACE}

\* Arg lists with parentheses in the arguments: ((a),(b)) , (a(b)c,d) ,
\* ("(",a) , (\(,a) , (")",a) , ((a,b) , (a)) and ((a b),c)
ArgsWithParens ==
  { <<"(", "(", "a", ")", ",", "(", "b", ")", ")">>,
    <<"(", "a", "(", "b", ")", "c", ",", "d", ")">>,
    <<"(", DQ, "(", DQ, ",", "a", ")">>,
    <<"(", ESCAPE, "(", ",", "a", ")">>,
    <<"(", DQ, ")", DQ, ",", "a", ")">>,
    <<"(", "(", "a", ",", "b", ")">>,
    <<"(", "a", ")", ")">>,
    <<"(", "(", "a", SPACE, "b", ")", ",", "c", ")">> }

\* A call as written: name(args).
CallText(name, args) == Chars(name) \o <<"(">> \o args \o <<")">>

CallTexts ==
  { CallText("upper", <<>>), CallText("upper", <<"1">>),
    CallText("slice", <<"0", ",", "3">>),
    CallText("slice", <<"1", ",", "3">>),
    CallText("slice", <<"0", ",", "1">>),
    CallText("join", <<>>), CallText("join", <<"-">>),
    CallText("join", <<"s", "e", "p", "=", "-">>),
    CallText("map", <<>>), CallText("always", <<>>),
    CallText("if", <<"a">>), CallText("if", <<>>),
    CallText("if", <<"a", ",", "b">>),
    CallText("nosuch", <<>>) }

CallsSyntax(calls) == [kind |-> "calls", calls |-> calls]

\* always().map().upper() and map().upper().slice(0,1)
ExCallsAlwaysMap ==
  CallsSyntax(<<CallText("always", <<>>), CallText("map", <<>>),
                CallText("upper", <<>>)>>)
ExCallsMapThenPlain ==
  CallsSyntax(<<CallText("map", <<>>), CallText("upper", <<>>),
                CallText("slice", <<"0", ",", "1">>)>>)

\* The calls a chain goes on with after its second call.
LaterCallTexts ==
  { CallText("upper", <<>>), CallText("map", <<>>), CallText("always", <<>>),
    CallText("if", <<"a">>) }

\* The chains of up to MaxCalls calls: any two calls, then calls of
\* LaterCallTexts.
CallsSources ==
  {CallsSyntax(calls) :
     calls \in {c \in UNION {[1..k -> CallTexts] : k \in 1..MaxCalls} :
                 \A i \in 3..Len(c) : c[i] \in LaterCallTexts}}
    \cup {ExCallsAlwaysMap, ExCallsMapThenPlain}

\* upper().a , upper().a.b() and upper()a: chains that do not go on with a
\* call
CallsMalformed ==
  { CallText("upper", <<>>) \o <<".", "a">>,
    CallText("upper", <<>>) \o <<".", "a", ".", "b", "(", ")">>,
    CallText("upper", <<>>) \o <<"a">>,
    Chars("upper") }

\* An argument of one call as written, with the name and the value it has
\* when it is a keyword argument.
CallArg(text, kw, name, value) ==
  [text |-> text, kw |-> kw, name |-> name, value |-> value]
CallArgTable ==
  { CallArg(<<"a">>, FALSE, <<>>, <<>>), CallArg(<<"b">>, FALSE, <<>>, <<>>),
    CallArg(<<"k", "=", "v">>, TRUE, <<"k">>, <<"v">>),
    CallArg(<<"k", "=", "w", "=">>, TRUE, <<"k">>, <<"w", "=">>),
    CallArg(<<"=", "v">>, TRUE, <<>>, <<"v">>) }

\* One call name(args) of a function with defaults (join) or without (upper).
CallSyntax(name, args) == [kind |-> "call", name |-> name, args |-> args]
CallSources ==
  {CallSyntax(name, args) :
     name \in {"join", "upper"},
     args \in UNION {[1..k -> CallArgTable] : k \in 0..MaxCallArgs}}

\* upper() and what follows its '.': one call where single holds, else what
\* is no call of one name.
Continued(tail, single) ==
  [kind |-> "continued", tail |-> tail, single |-> single]
ContinuedSources ==
  { Continued(CallText("upper", <<>>), TRUE),
    Continued(CallText("join", <<"-">>), TRUE),
    Continued(<<>>, FALSE),
    Continued(<<"a">>, FALSE),
    Continued(Chars("upper"), FALSE),
    Continued(Chars("upper") \o <<SPACE, "(", ")">>, FALSE),
    Continued(<<"a", ".", "b", "(", ")">>, FALSE),
    Continued(<<"a", ".">> \o CallText("upper", <<>>), FALSE),
    Continued(<<"a", "[", "3", "]", "(", ")">>, FALSE),
    Continued(Chars("upper") \o <<"[", "]", "(", ")">>, FALSE),
    Continued(<<"(", ")">>, FALSE),
    Continued(<<".", "(", ")">>, FALSE) }

\* A key that begins with the alias x and ends with a call: x.upper() for
\* one.
Aliased(text) == [kind |-> "aliased", text |-> text]
AliasedSources ==
  { Aliased(<<"x", ".">> \o CallText("upper", <<>>)),
    Aliased(<<"x", ".">> \o CallText("join", <<"-">>)),
    Aliased(<<"x", ".", "c", ".">> \o CallText("upper", <<>>)),
    Aliased(<<"x", "(", ")">>),
    Aliased(<<"x", ".", "c">>) }

Hello == PyStr(<<"h", "e", "l", "l", "o">>)
ListAB == PyList(<<PyStr(<<"a">>), PyStr(<<"b">>)>>)

\* The objects a chain is evaluated on.
Subjects ==
  { PyNone, PyStr(<<>>), Hello, PyStr(<<"a", "b">>), PyInt(0), PyInt(5),
    PyList(<<>>), ListAB, PyList(<<PyStr(<<"a">>), PyNone>>) }

\* The active levels of a caller.
Actives == {PyInt(0), PyInt(1)}

InitCall ==
  /\ \/ /\ source \in ArgsSources
        /\ expr = ArgsText(source.args)
     \/ /\ source \in CallsSources
        /\ expr = Join(source.calls, <<".">>)
     \/ /\ source \in CallSources
        /\ expr = CallText(source.name,
                           Join([i \in 1..Len(source.args) |->
                                   source.args[i].text], <<",">>))
     \/ /\ source \in ContinuedSources
        /\ expr = CallText("upper", <<>>) \o <<".">> \o source.tail
     \/ /\ source \in AliasedSources
        /\ expr = source.text
     \/ /\ source = PlainText
        /\ expr \in Strings(ArgsAlphabet, MaxArgLen) \cup CallsMalformed
                     \cup ArgsWithParens
  /\ position = 0
  /\ aliases = IF source.kind = "aliased" THEN AliasX ELSE {}
  /\ chain = NewTransform
  /\ ret = NoCall
  /\ saved = NoCheckpoint
  /\ runs = NoRuns

\* lex.IsCharacter('('), with the key that was parsed before it
CallIsCharacter ==
  /\ ret.op \in {"init", "Key"}
  /\ ret.op = "Key" => ret.err = NoError
  /\ LET r == IsCharacter(expr, position, {"("}, FALSE, FALSE) IN
       /\ position' = r.position
       /\ ret' = [op |-> "IsCharacter", start |-> position, err |-> r.err,
                  val |-> r.val,
                  key |-> IF ret.op = "Key" THEN ret.val ELSE <<>>,
                  list |-> IF ret.op = "Key" THEN ret.list ELSE NewList]
  /\ UNCHANGED <<expr, aliases, chain, source, saved, runs>>

\* lex.Args(convert), the '(' consumed
CallArgs ==
  /\ ret.op = "IsCharacter" /\ ret.val = "("
  /\ \E convert \in BOOLEAN :
       LET r == Args(expr, position, convert) IN
         /\ position' = r.position
         /\ ret' = [op |-> "Args", start |-> position, convert |-> convert,
                    err |-> r.err, val |-> r.val]
  /\ UNCHANGED <<expr, aliases, chain, source, saved, runs>>

\* lex.Transform(key.pop(), active, restriction), the '(' consumed
CallTransform ==
  /\ ret.op = "IsCharacter" /\ ret.val = "(" /\ Len(ret.key) >= 1
  /\ \E active \in Actives, restriction \in BOOLEAN :
       LET r == Transform(expr, position, aliases, ret.key[Len(ret.key)],
                          active, restriction)
       IN /\ position' = r.position
          /\ chain' = IF r.err = NoError THEN r.val ELSE chain
          /\ ret' = [op |-> "Transform", start |-> position,
                     func_name |-> ret.key[Len(ret.key)], active |-> active,
                     restriction |-> restriction, err |-> r.err]
  /\ aliases' = AliasesWith(aliases, ret.list,
                            SubSeq(ret.key, 1, Len(ret.key) - 1))
  /\ UNCHANGED <<expr, source, saved, runs>>

\* lex.Transform(key.pop(), active, restriction) with the cursor at the '('
\* after the name, the '(' not consumed
CallTransformAtParen ==
  /\ ret.op = "Key" /\ ret.err = NoError /\ Len(ret.val) = 1
  /\ IsCharacter(expr, position, {"("}, TRUE, TRUE).val = "("
  /\ \E active \in Actives, restriction \in BOOLEAN :
       LET r == Transform(expr, position, aliases, ret.val[1], active,
                          restriction)
       IN /\ position' = r.position
          /\ chain' = IF r.err = NoError THEN r.val ELSE chain
          /\ ret' = [op |-> "TransformAtParen", start |-> position,
                     func_name |-> ret.val[1], active |-> active,
                     restriction |-> restriction, err |-> r.err]
  /\ aliases' = AliasesWith(aliases, ret.list, <<>>)
  /\ UNCHANGED <<expr, source, saved, runs>>

\* calls.Evaluate(obj) of the calls that Transform returned
CallEvaluate ==
  /\ ret.op = "Transform" /\ ret.err = NoError
  /\ \E obj \in Subjects :
       LET r == Evaluate(chain, obj) IN
         ret' = [op |-> "Evaluate", obj |-> obj, err |-> r.err,
                 val |-> r.val]
  /\ UNCHANGED <<expr, position, aliases, chain, source, saved, runs>>

\* calls.IsActive(active) of the calls that Transform returned
CallIsActive ==
  /\ ret.op = "Transform" /\ ret.err = NoError
  /\ \E active \in Actives :
       ret' = [op |-> "IsActive", start |-> ret.start,
               func_name |-> ret.func_name, active |-> active,
               val |-> IsActive(chain, active)]
  /\ UNCHANGED <<expr, position, aliases, chain, source, saved, runs>>

NextCall == CallKey \/ CallIsCharacter \/ CallArgs \/ CallTransform
              \/ CallTransformAtParen \/ CallEvaluate \/ CallIsActive

SpecCall == InitCall /\ [][NextCall]_vars

---------------------------------------------------------------------------
(* Claims about Args and Evaluate, checked under SpecCall *)

\* Args was called just past the '(' of an arg list written from a syntax.
ArgsOfSyntax == ret.op = "Args" /\ ret.start = 1 /\ source.kind = "args"

ArgValue(arg, convert) ==
  IF convert /\ arg.number # PyNone THEN arg.number ELSE PyStr(arg.text)

Ex123 == <<"(", "1", ",", "2", ",", "3", ")">>

\* C9: Args, called just past '(', returns [] when ')' follows at once and
\* the arguments from left to right for a comma separated list (three for
\* (1,2,3)), and raises a syntax error when an argument is missing before the
\* first comma, between two commas or between a comma and ')'.
ArgsReturnsListOrRaises ==
  ArgsOfSyntax =>
    /\ IF \E i \in 1..Len(source.args) : source.args[i] = Missing
       THEN ret.err = "Argument expected"
       ELSE /\ ret.err = NoError
            /\ ret.val = [i \in 1..Len(source.args) |->
                            ArgValue(source.args[i], ret.convert)]
            /\ position = Len(expr)
    /\ expr = <<"(", ")">> => ret.err = NoError /\ ret.val = <<>>
    /\ expr = Ex123 => ret.err = NoError /\ Len(ret.val) = 3
    /\ expr \in { <<"(", ",", "1", ")">>, <<"(", "1", ",", ",", "3", ")">>,
                  <<"(", "1", ",", ")">> } => ret.err = "Argument expected"

\* C9 witness: the three arguments of (1,2,3) were returned as numbers.
ArgsReturnsListOrRaisesWitness ==
  /\ ArgsOfSyntax /\ expr = Ex123 /\ ret.convert
  /\ ret.val = <<PyInt(1), PyInt(2), PyInt(3)>>

\* The outcome of an Evaluate call.
Outcome == [err |-> ret.err, val |-> ret.val]

\* The call t of a chain applied to obj.
Applied(t, obj) == Apply(t.func, <<obj>> \o t.args, t.kwargs)

ExUpperSlice ==
  CallText("upper", <<>>) \o <<".">> \o CallText("slice", <<"0", ",", "3">>)

\* C1: Evaluate applies the calls of the chain in list order, each call that
\* is neither mapped nor a restriction getting the result before it as first
\* argument, then its own positional and keyword arguments, and returns the
\* last result: g(f(obj, f.args...), g.args...) for a chain [f, g], and HEL
\* for upper().slice(0,3) on hello.
EvaluatePipesCallsInOrder ==
  (/\ ret.op = "Evaluate"
   /\ \A i \in 1..Len(chain.transforms) :
        ~chain.transforms[i].map_transform /\ ~chain.transforms[i].restriction)
  => LET f == chain.transforms[1]
         g == chain.transforms[2]
     IN /\ Len(chain.transforms) = 0 => Outcome = Returned(ret.obj)
        /\ Len(chain.transforms) = 1 => Outcome = Applied(f, ret.obj)
        /\ Len(chain.transforms) = 2 =>
             IF Applied(f, ret.obj).err # NoError
             THEN ret.err = Applied(f, ret.obj).err
             ELSE Outcome = Applied(g, Applied(f, ret.obj).val)
        /\ (/\ expr = ExUpperSlice /\ Len(chain.transforms) = 2
            /\ ret.obj = Hello) =>
             Outcome = Returned(PyStr(<<"H", "E", "L">>))

\* C1 witness: upper().slice(0,3) was evaluated on hello.
EvaluatePipesCallsInOrderWitness ==
  /\ ret.op = "Evaluate" /\ expr = ExUpperSlice /\ ret.obj = Hello
  /\ Len(chain.transforms) = 2 /\ ret.val = PyStr(<<"H", "E", "L">>)

\* A chain of one mapped call was evaluated.
MappedCallEvaluated ==
  /\ ret.op = "Evaluate" /\ Len(chain.transforms) = 1
  /\ chain.transforms[1].map_transform /\ ~chain.transforms[1].restriction

\* The call t applied to each item of a list: the list of the results, or the
\* first exception.
MappedOutcome(t, items) ==
  IF \E i \in 1..Len(items) : Applied(t, items[i]).err # NoError
  THEN ret.err =
         Applied(t, items[CHOOSE i \in 1..Len(items) :
                            /\ Applied(t, items[i]).err # NoError
                            /\ \A j \in 1..(i - 1) :
                                 Applied(t, items[j]).err = NoError]).err
  ELSE Outcome =
         Returned(PyList([i \in 1..Len(items) |-> Applied(t, items[i]).val]))

ExMapUpper == CallText("map", <<>>) \o <<".">> \o CallText("upper", <<>>)

\* C2 as claimed: a mapped call gives the list of f of each item of a list,
\* and gives back unchanged, without applying f, an empty list and any object
\* that is not a list.
MappedCallSkipsNonLists ==
  MappedCallEvaluated =>
    IF IsListLike(ret.obj) /\ ret.obj.l # <<>>
    THEN MappedOutcome(chain.transforms[1], ret.obj.l)
    ELSE Outcome = Returned(ret.obj)

\* C2 as amended: a mapped call gives the list of f of each item of a list
\* ([A, B] for map().upper() on [a, b], and the empty list for the empty
\* list), gives back unchanged an object that is not a list and is false
\* (None, the empty string, 0), and applies f to the object itself when it
\* is not a list and is true.
MappedCallAppliesToTrueNonLists ==
  MappedCallEvaluated =>
    /\ IF IsListLike(ret.obj)
       THEN MappedOutcome(chain.transforms[1], ret.obj.l)
       ELSE IF Truthy(ret.obj)
       THEN Outcome = Applied(chain.transforms[1], ret.obj)
       ELSE Outcome = Returned(ret.obj)
    /\ (expr = ExMapUpper /\ ret.obj = ListAB) =>
         Outcome = Returned(PyList(<<PyStr(<<"A">>), PyStr(<<"B">>)>>))
    /\ (expr = ExMapUpper /\ ret.obj \in {PyNone, PyStr(<<>>), PyList(<<>>)})
         => Outcome = Returned(ret.obj)

\* C2 witness: map().upper() was evaluated on the string ab and gave AB.
MappedCallAppliesToTrueNonListsWitness ==
  /\ MappedCallEvaluated /\ expr = ExMapUpper
  /\ ret.obj = PyStr(<<"a", "b">>) /\ ret.val = PyStr(<<"A", "B">>)

---------------------------------------------------------------------------
(* Claims about Transform, checked under SpecCall *)

\* The name of a call as written: the characters before its '('.
RECURSIVE CallNameOf(_)
CallNameOf(text) ==
  IF text = <<>> \/ text[1] = "(" THEN <<>>
  ELSE <<text[1]>> \o CallNameOf(Tail(text))

\* The last Transform call parsed the whole chain of the syntax: it was given
\* the first name and started just past the first '('.
WholeChain ==
  /\ source.kind = "calls"
  /\ ret.func_name = PyStr(CallNameOf(source.calls[1]))
  /\ ret.start = Len(CallNameOf(source.calls[1])) + 1

ChainParsed == ret.op = "Transform" /\ WholeChain

HasCall(name) ==
  \E i \in 1..Len(source.calls) : CallNameOf(source.calls[i]) = Chars(name)

\* C11: after Transform parses a chain with an always() call at any position
\* (here: a chain that has calls in its list), the chain is always active: its
\* active level is None, IsActive holds for every level, and always() is not
\* in the call list.
AlwaysMakesChainActive ==
  (/\ ret.op = "IsActive" /\ WholeChain /\ HasCall("always")
   /\ chain.transforms # <<>>) =>
    /\ Truthy(ret.val)
    /\ Active(chain) = Returned(PyNone)
    /\ \A i \in 1..Len(chain.transforms) :
         chain.transforms[i].func # TransformAlways

\* The calls of a chain that are added to the list, each with whether a map()
\* came before it and after the call added before it.
RECURSIVE MappedCalls(_, _)
MappedCalls(calls, mapped) ==
  IF calls = <<>> THEN <<>>
  ELSE IF CallNameOf(calls[1]) = Chars("map") THEN
    MappedCalls(Tail(calls), TRUE)
  ELSE IF CallNameOf(calls[1]) \in {Chars("always"), Chars("if")} THEN
    MappedCalls(Tail(calls), mapped)
  ELSE <<[name |-> CallNameOf(calls[1]), map_transform |-> mapped]>>
         \o MappedCalls(Tail(calls), FALSE)

\* C12: Transform drops map() from the call list and marks exactly the next
\* call it adds as list-mapped: in map().f().g() f is mapped and g is not,
\* and a call with no map() before it is never mapped.
MapMarksNextCallOnly ==
  (ChainParsed /\ ret.err = NoError) =>
    /\ [i \in 1..Len(chain.transforms) |->
          [name |-> chain.transforms[i].name.s,
           map_transform |-> chain.transforms[i].map_transform]]
         = MappedCalls(source.calls, FALSE)
    /\ source = ExCallsMapThenPlain =>
         /\ Len(chain.transforms) = 2
         /\ chain.transforms[1].map_transform
         /\ ~chain.transforms[2].map_transform

\* C12 witness: map().upper().slice(0,1) was parsed.
MapMarksNextCallOnlyWitness ==
  /\ ChainParsed /\ source = ExCallsMapThenPlain
  /\ chain.transforms[1].func = "upper" /\ chain.transforms[1].map_transform
  /\ chain.transforms[2].func = "slice" /\ ~chain.transforms[2].map_transform

\* The calls that cannot be parsed: an if() without exactly one argument and
\* a name that is not a function.
IfOne == CallText("if", <<"a">>)
BadIf(text) == CallNameOf(text) = Chars("if") /\ text # IfOne
Unknown(text) == CallNameOf(text) = Chars("nosuch")
IsBad(i) == BadIf(source.calls[i]) \/ Unknown(source.calls[i])
SomeBad == \E i \in 1..Len(source.calls) : IsBad(i)
FirstBad ==
  CHOOSE i \in 1..Len(source.calls) :
    IsBad(i) /\ \A j \in 1..(i - 1) : ~IsBad(j)

ExIfUpper == <<IfOne, CallText("upper", <<>>)>>

\* C13: Transform raises a syntax error for an if() with no argument or with
\* more than one; with one argument that argument is the conditional of the
\* chain and if() is not in the call list.
IfTakesOneArgument ==
  ChainParsed =>
    /\ (SomeBad /\ BadIf(source.calls[FirstBad])) =>
         ret.err = "Conditional filter expression expected"
    /\ ~SomeBad =>
         /\ ret.err = NoError
         /\ chain.conditional =
              IF \E i \in 1..Len(source.calls) : source.calls[i] = IfOne
              THEN PyStr(<<"a">>) ELSE PyNone
         /\ \A i \in 1..Len(chain.transforms) :
              chain.transforms[i].func # TransformIf

\* C13 witness: if(a).upper() was parsed.
IfTakesOneArgumentWitness ==
  /\ ChainParsed /\ source.calls = ExIfUpper /\ ret.err = NoError
  /\ chain.conditional = PyStr(<<"a">>) /\ Len(chain.transforms) = 1

\* The position just past the '(' of call i of the chain.
RECURSIVE CallOpen(_, _)
CallOpen(calls, i) ==
  IF i = 1 THEN Len(CallNameOf(calls[1])) + 1
  ELSE Len(calls[1]) + 1 + CallOpen(Tail(calls), i - 1)

ExUpperNosuch == <<CallText("upper", <<>>), CallText("nosuch", <<>>)>>

\* C14: a call whose name is not in the symbols raises 'Unknown transform
\* function', as the first call of a chain and as a later one, with the
\* cursor still just past its '(' and no chain returned.
UnknownFunctionRaises ==
  ChainParsed =>
    IF SomeBad /\ Unknown(source.calls[FirstBad])
    THEN /\ ret.err = "Unknown transform function"
         /\ position = CallOpen(source.calls, FirstBad)
         /\ chain = NewTransform
    ELSE ret.err # "Unknown transform function"

\* C14 witness: upper().nosuch() was rejected at the '(' of nosuch.
UnknownFunctionRaisesWitness ==
  /\ ChainParsed /\ source.calls = ExUpperNosuch
  /\ ret.err = "Unknown transform function" /\ position = 15

\* The indexes of the keyword arguments of one call, and of those that are
\* not overwritten by a later one of the same name.
KwArgs == {i \in 1..Len(source.args) : source.args[i].kw}
LastKwArgs ==
  {i \in KwArgs :
     \A j \in KwArgs : j > i => source.args[j].name # source.args[i].name}

\* The arguments of a sequence that satisfy a test, in order.
RECURSIVE Positional(_)
Positional(args) ==
  IF args = <<>> THEN <<>>
  ELSE IF args[1].kw THEN Positional(Tail(args))
  ELSE <<PyStr(args[1].text)>> \o Positional(Tail(args))

CallParsed ==
  /\ ret.op = "Transform" /\ source.kind = "call" /\ ret.err = NoError
  /\ ret.start = Len(Chars(source.name)) + 1

\* C20: for a function with default-valued parameters every argument with an
\* '=' is a keyword argument, named by the text before the first '=' with the
\* rest as its value, and the others are positional in source order; for a
\* function without defaults every argument is positional in source order.
ArgsSplitOnlyWithDefaults ==
  CallParsed =>
    /\ Len(chain.transforms) = 1
    /\ source.name = "join" =>
         /\ chain.transforms[1].args = Positional(source.args)
         /\ chain.transforms[1].kwargs =
              {<<source.args[i].name, PyStr(source.args[i].value)>> :
                 i \in LastKwArgs}
    /\ source.name = "upper" =>
         /\ chain.transforms[1].args =
              [i \in 1..Len(source.args) |-> PyStr(source.args[i].text)]
         /\ chain.transforms[1].kwargs = {}

\* C20 witness: join(k=w=,a) was parsed into one positional and one keyword
\* argument.
ArgsSplitOnlyWithDefaultsWitness ==
  /\ CallParsed /\ source.name = "join"
  /\ chain.transforms[1].args = <<PyStr(<<"a">>)>>
  /\ chain.transforms[1].kwargs = {<< <<"k">>, PyStr(<<"w", "=">>) >>}

---------------------------------------------------------------------------
(* Claims about Key on keys without names, checked under SpecKey *)

KeyAtStart == ret.op = "Key" /\ ret.start = 0

\* A '.' at pos that is followed by the end of the input or by a reserved
\* operator character.
TopLevelAt(e, pos) ==
  /\ pos < Len(e) /\ e[pos + 1] = "."
  /\ \/ pos + 1 = Len(e)
     \/ e[pos + 2] \in RESERVED_OPERATOR_CHARS

AliasesAreKeys == \A a \in aliases : a[2] # <<>>

LeadingDotIsTopLevelOrRaises ==
  (KeyAtStart /\ expr # <<>> /\ expr[1] = ".") =>
    IF Len(expr) = 1 \/ expr[2] \in RESERVED_OPERATOR_CHARS
    THEN ret.err = NoError /\ ret.val = <<>> /\ position = 1
    ELSE ret.err = "Non-empty key name expected"

LeadingDotIsTopLevelOrRaisesWitness ==
  /\ KeyAtStart /\ expr = <<".", "a">>
  /\ ret.err = "Non-empty key name expected"

LeadingDotBeforeOperator ==
  /\ KeyAtStart /\ expr = <<".", "[", "3">>
  /\ ret.err = NoError /\ ret.val = <<>> /\ position = 1

\* C17: Key raises a syntax error for a key that ends with a '.' separator,
\* whether the '.' is the last character of the input or only white space
\* follows it.
DanglingKey == KeyAtStart /\ source.kind = "dangling"

DanglingDotRaises ==
  DanglingKey =>
    /\ ret.err \in {"Non-empty key name expected", "More tokens expected"}
    /\ source.spaces = <<>> =>
         (ret.err = "Non-empty key name expected" /\ position = Len(expr))

DanglingDotRaisesWitness ==
  /\ DanglingKey /\ expr = <<"a", ".", "b", ".">>
  /\ ret.err = "Non-empty key name expected"

DanglingDotBeforeSpaceRaises ==
  /\ DanglingKey /\ expr = <<"a", ".", "b", ".", SPACE, SPACE>>
  /\ ret.err # NoError

\* C18 as stated: whenever Key returns without error every '[' it consumed is
\* closed by a ']' right after the content of the index; a[1 2] and a[1 are
\* errors.
BracketsKey == KeyAtStart /\ source.kind = "brackets"

KeyClosesEveryIndex ==
  (BracketsKey /\ ~source.closed) => ret.err # NoError

UnclosedIndexRaisesAtEnd ==
  /\ BracketsKey /\ expr = <<"a", "[", "1">>
  /\ ret.err = "More tokens expected"

\* The key a syntax with name-less segments denotes.
RECURSIVE NamelessSyntaxKey(_)
NamelessSyntaxKey(segs) ==
  IF segs = <<>> THEN <<>>
  ELSE (IF segs[1].name = Nameless THEN <<>>
        ELSE <<PyStr(segs[1].name.value)>>)
         \o IndexValues(segs[1].indexes) \o NamelessSyntaxKey(Tail(segs))

NamelessKey == KeyAtStart /\ source.kind = "nameless"
BareNameless(seg) == seg.name = Nameless /\ seg.indexes = <<>>

NamelessAfterIndexRaises ==
  /\ NamelessKey /\ expr = <<"[", "3", "]", ".">>
  /\ ret.err = "Non-empty key name expected"

---------------------------------------------------------------------------
(* Claims about restrictions and chain continuations, checked under SpecCall *)

\* The call t of a chain applied as Evaluate applies a call that is not
\* mapped: a restriction without the object.
AppliedAs(t, obj) ==
  IF t.restriction THEN Apply(t.func, t.args, t.kwargs) ELSE Applied(t, obj)

\* C21: Evaluate invokes a call that is not mapped and is a restriction with
\* its stored arguments only, and the result replaces the object whatever the
\* object was; a call that is not mapped and is no restriction is invoked
\* with the object as its first argument.
RestrictionCallGetsNoObject ==
  (/\ ret.op = "Evaluate" /\ chain.transforms # <<>>
   /\ \A i \in 1..Len(chain.transforms) : ~chain.transforms[i].map_transform)
  => LET f == chain.transforms[1]
         g == chain.transforms[2]
     IN /\ Len(chain.transforms) = 1 => Outcome = AppliedAs(f, ret.obj)
        /\ Len(chain.transforms) = 2 =>
             IF AppliedAs(f, ret.obj).err # NoError
             THEN ret.err = AppliedAs(f, ret.obj).err
             ELSE Outcome = AppliedAs(g, AppliedAs(f, ret.obj).val)
        /\ (f.restriction /\ f.func = "upper" /\ f.args = <<PyStr(<<"a">>)>>
            /\ Len(chain.transforms) = 1)
             => Outcome = Returned(PyStr(<<"A">>))

\* C21 witness: the restriction upper(a) was evaluated on None and gave A.
RestrictionCallGetsNoObjectWitness ==
  /\ ret.op = "Evaluate" /\ Len(chain.transforms) = 1
  /\ chain.transforms[1].restriction /\ chain.transforms[1].func = "upper"
  /\ chain.transforms[1].args = <<PyStr(<<"a">>)>>
  /\ ret.obj = PyNone /\ ret.err = NoError /\ ret.val = PyStr(<<"A">>)

\* The same call without the flag gets the object before its argument.
PlainCallGetsObject ==
  /\ ret.op = "Evaluate" /\ Len(chain.transforms) = 1
  /\ ~chain.transforms[1].restriction /\ chain.transforms[1].func = "upper"
  /\ chain.transforms[1].args = <<>>
  /\ ret.obj = Hello /\ ret.val = PyStr(<<"H", "E", "L", "L", "O">>)

\* The messages of ExpressionSyntaxError.
SyntaxErrors ==
  { "Unterminated quote", "More tokens expected", "Argument expected",
    "Non-empty key name expected", "Unmatched ] in key",
    "Unknown transform function", "Transform function expected",
    "Conditional filter expression expected" }

\* Transform was called for upper() and what follows it.
ContinuedParsed ==
  /\ ret.op = "Transform" /\ source.kind = "continued"
  /\ ret.start = 6 /\ ret.func_name = PyStr(Chars("upper"))

\* C22 as stated: after the ')' of a call, a '.' that is not followed by one
\* name and its '(' (the end of the input, a name without '(', a key of two
\* or more segments before the '(') raises ExpressionSyntaxError, and no
\* chain is returned.
DotNeedsOneCallName ==
  /\ (ContinuedParsed /\ ~source.single) =>
       (ret.err \in SyntaxErrors /\ chain = NewTransform)
  /\ (ContinuedParsed /\ source.single) =>
       (ret.err = NoError /\ Len(chain.transforms) = 2)

\* A name and its '(' after the '.' go on with the chain.
DotBeforeCallContinues ==
  /\ ContinuedParsed /\ source.tail = CallText("upper", <<>>)
  /\ ret.err = NoError /\ Len(chain.transforms) = 2

\* C29 as stated: Transform called with the cursor at the '(' after the
\* first name, the '(' not consumed, parses the arguments of that call and
\* the rest of the chain, as it does from the position after the '('.
TransformAtParenParsesChain ==
  ret.op = "TransformAtParen" =>
    LET r == Transform(expr, ret.start + 1, aliases, ret.func_name,
                       ret.active, ret.restriction)
    IN r.err = NoError =>
         (ret.err = NoError /\ chain = r.val /\ position = r.position)

---------------------------------------------------------------------------
(* Claims about spaces and parentheses in Token, checked under SpecToken *)

\* The characters Token consumed have no quote and no escape.
RawUnquoted == \A i \in 1..Len(Raw) : Raw[i] \notin QUOTES \cup {ESCAPE}

\* C26 as stated: for every setting of terminators and balance_parens a space
\* outside quotes ends the token once it has a character, so a token read
\* from characters without quotes and escapes holds no space.
SpaceEndsToken ==
  (TokenReturned /\ RawUnquoted /\ ret.val.t = "str") =>
    \A i \in 1..Len(ret.val.s) : ~isspace(ret.val.s[i])

\* Without balance_parens a space does end the token.
SpaceEndsPlainToken ==
  /\ TokenReturned /\ ~ret.args.balance_parens /\ ret.start = 0
  /\ expr = ExSpacedArgs /\ ret.val = PyStr(<<"a">>) /\ ret.end = 1

\* The parenthesis count of Token at index i, for characters without quotes.
ParenCount(i) ==
  Cardinality({j \in (ret.start + 1)..i : expr[j] = "("})
    - Cardinality({j \in (ret.start + 1)..i : expr[j] = ")"})

\* Index i is the end of the input or is before a terminator met with no
\* parenthesis open.
OuterTerminatorAt(i) ==
  \/ i = Len(expr)
  \/ expr[i + 1] \in ret.args.terminators /\ ParenCount(i) = 0

\* C27: with balance_parens, Token ends at a terminator only when it is
\* outside quotes and no parenthesis is open, and leaves that terminator
\* unconsumed: the token ends before the first such terminator or at the end
\* of the input.  So of f(a,b),c) the first token is f(a,b) and of
\* "a,b)",c) it is a,b) - each with the cursor at the ',' that follows.
BalancedTokenEndsAtOuterTerminator ==
  /\ (TokenReturned /\ ret.args.balance_parens /\ RawUnquoted) =>
       /\ OuterTerminatorAt(ret.end)
       /\ \A i \in ret.start..(ret.end - 1) : ~OuterTerminatorAt(i)
       /\ ret.end < Len(expr) => position = ret.end
  /\ (ret.op = "Token" /\ ret.args.balance_parens /\ ret.start = 0) =>
       /\ expr = ExNestedComma =>
            /\ ret.err = NoError /\ position = 6
            /\ ret.val = PyStr(<<"f", "(", "a", ",", "b", ")">>)
       /\ expr = ExQuotedComma =>
            /\ ret.err = NoError /\ position = 6
            /\ ret.val = PyStr(<<"a", ",", "b", ")">>)

\* C27 witness: the first argument of f(a,b),c) was read.
BalancedTokenEndsAtOuterTerminatorWitness ==
  /\ TokenReturned /\ ret.args.balance_parens /\ ret.start = 0
  /\ expr = ExNestedComma /\ position = 6
  /\ ret.val = PyStr(<<"f", "(", "a", ",", "b", ")">>)

\* A ')' that closes a parenthesis of the token does not end it.
BalancedTokenKeepsInnerParen ==
  /\ TokenReturned /\ ret.args.balance_parens /\ ret.start = 0
  /\ expr = <<"(", ")", ")">> /\ ret.end = 2
  /\ ret.val = PyStr(<<"(", ")">>)

---------------------------------------------------------------------------
(* Claims about keys and their names, checked under SpecKey *)

\* C30 as stated: for every key that Key returns with no aliases, GetKeyName
\* gives a name that Key parses to the same key again.
KeyOfNameIsKey ==
  /\ (ret.op = "GetKeyName" /\ aliases = {}) => ret.err = NoError
  /\ (ret.op = "KeyOfName" /\ aliases = {}) =>
       (ret.err = NoError /\ ret.val = ret.key)

\* The key of a.b[3] is parsed from its name again.
KeyOfNameOfPlainKey ==
  /\ ret.op = "KeyOfName" /\ ret.err = NoError
  /\ ret.key = <<PyStr(<<"a">>), PyStr(<<"b">>), PyInt(3)>>
  /\ ret.val = ret.key

---------------------------------------------------------------------------
(* Claims about the alias table, checked under SpecCall *)

\* C24: no operation of the lexer changes the alias table: after Key expands
\* an alias and appends further segments to its result, and after the
\* function name is popped from a parsed key for Transform, every alias
\* still maps to its original key path.
LexerKeepsAliases == [][aliases' = aliases]_vars

\* C24 witness: Key expanded the alias x of x.upper() to a.b and appended
\* upper, upper was popped for Transform, and x is a.b still.
LexerKeepsAliasesWitness ==
  /\ ret.op = "Transform" /\ ret.err = NoError /\ source.kind = "aliased"
  /\ expr = <<"x", ".">> \o CallText("upper", <<>>)
  /\ ret.func_name = PyStr(Chars("upper")) /\ ret.start = 8
  /\ aliases = AliasX

---------------------------------------------------------------------------
(* Claims about checkpoints, checked under SpecKey *)

RestoredPositionRepeatsAlias ==
  /\ saved.restored /\ ret.op = "Key" /\ ret.start = saved.position
  /\ source = ExKeyAliasFirst /\ aliases = AliasX /\ position = saved.end
  /\ saved.end > saved.position
RestoredPositionRepeatsError ==
  /\ saved.restored /\ ret.op = "Key" /\ ret.start = saved.position
  /\ ret.err # NoError /\ ret = saved.first

---------------------------------------------------------------------------
(* A chain of calls and its callers: the operations of _Transform on one
   chain, and Evaluate calls of several callers that run one statement at a
   time *)

MaxChain == 2

\* The callers that evaluate the chain.
Runners == {1, 2}

Dash == PyStr(<<"-">>)

\* The calls that are added to the chain.
ChainCalls ==
  { TransformCall(PyStr(Chars("upper")), "upper", PyInt(0), FALSE, <<>>, {},
                  FALSE),
    TransformCall(PyStr(Chars("upper")), "upper", PyNone, TRUE, <<>>, {},
                  FALSE),
    TransformCall(PyStr(Chars("join")), "join", PyInt(0), FALSE, <<Dash>>, {},
                  FALSE) }

\* The objects the callers evaluate the chain on.
ChainSubjects == {Hello, ListAB, PyNone}

\* The locals of an Evaluate call: the statement it is at, the object it was
\* called with and the chain it was called on, obj, the index of the
\* transform of the loop, the items left and the list made of them, and how
\* the call ended. overlapped is whether it made a step while another call
\* was in progress.
IdleRun ==
  [pc |-> "idle", subject |-> PyNone, calls |-> NewTransform, obj |-> PyNone,
   i |-> 1, items |-> <<>>, acc |-> <<>>, err |-> NoError,
   overlapped |-> FALSE]
IdleRuns == [r \in Runners |-> IdleRun]

InProgress(run) == run.pc \in {"loop", "items"}
Quiet == \A r \in Runners : ~InProgress(runs[r])
Overlaps(r) == \E q \in Runners \ {r} : InProgress(runs[q])

InitChain ==
  /\ expr = <<>> /\ position = 0 /\ aliases = {}
  /\ source = [kind |-> "chain"]
  /\ saved = NoCheckpoint
  /\ ret = NoCall
  /\ runs = IdleRuns
  /\ \/ chain = NewTransform
     \/ \E c \in ChainCalls, restriction \in BOOLEAN :
          chain = MakeTransform(c.name, c.func, c.args, c.kwargs, restriction)

\* calls.Add(transform)
ChainAdd ==
  /\ Quiet /\ Len(chain.transforms) < MaxChain
  /\ \E c \in ChainCalls :
       /\ chain' = Add(chain, c)
       /\ ret' = [op |-> "Add", err |-> NoError, val |-> PyNone]
  /\ runs' = IdleRuns
  /\ UNCHANGED <<expr, position, aliases, source, saved>>

\* calls.SetConditional(expr)
ChainSetConditional ==
  /\ Quiet
  /\ chain' = SetConditional(chain, PyStr(<<"a">>))
  /\ ret' = [op |-> "SetConditional", err |-> NoError, val |-> PyNone]
  /\ runs' = IdleRuns
  /\ UNCHANGED <<expr, position, aliases, source, saved>>

\* calls.SetRestriction(): there is no first call to set in an empty list
ChainSetRestriction ==
  /\ Quiet
  /\ IF chain.transforms = <<>> THEN
       /\ chain' = chain
       /\ ret' = [op |-> "SetRestriction", err |-> "IndexError",
                  val |-> PyNone]
     ELSE
       /\ chain' = SetRestriction(chain)
       /\ ret' = [op |-> "SetRestriction", err |-> NoError, val |-> PyNone]
  /\ runs' = IdleRuns
  /\ UNCHANGED <<expr, position, aliases, source, saved>>

\* calls.Name()
ChainName ==
  /\ Quiet
  /\ ret' = [op |-> "Name", err |-> NoError, val |-> TransformName(chain)]
  /\ runs' = IdleRuns
  /\ UNCHANGED <<expr, position, aliases, chain, source, saved>>

\* calls.IsActive(active)
ChainIsActive ==
  /\ Quiet
  /\ \E active \in Actives :
       ret' = [op |-> "IsActive", err |-> NoError,
               val |-> IsActive(chain, active)]
  /\ runs' = IdleRuns
  /\ UNCHANGED <<expr, position, aliases, chain, source, saved>>

\* The chain after transform i was called with params: the call holds its
\* stored arguments.
ChainAfterCall(calls, i, params) ==
  [calls EXCEPT !.transforms[i].args = StoredArgs(calls.transforms[i], params)]

\* The run after a call of transform i returned or raised r.
RunAfterCall(run, r) ==
  IF r.err # NoError THEN [run EXCEPT !.pc = "done", !.err = r.err]
  ELSE [run EXCEPT !.obj = r.val, !.i = @ + 1]

\* A caller enters calls.Evaluate(obj)
StartEvaluate ==
  \E r \in Runners, obj \in ChainSubjects :
    /\ runs[r].pc = "idle"
    /\ runs' = [runs EXCEPT ![r] =
                  [IdleRun EXCEPT !.pc = "loop", !.subject = obj,
                                  !.calls = chain, !.obj = obj]]
    /\ ret' = [op |-> "Evaluate", err |-> NoError, val |-> PyNone]
    /\ UNCHANGED <<expr, position, aliases, chain, source, saved>>

\* One turn of the loop over the transforms: the return after the last
\* transform, the start of the loop over the items of a list, the call of
\* the transform on obj, or nothing
StepEvaluate ==
  \E r \in Runners :
    LET run == [runs[r] EXCEPT !.overlapped = @ \/ Overlaps(r)]
        i == run.i
    IN
    /\ run.pc = "loop"
    /\ ret' = [op |-> "Evaluate", err |-> NoError, val |-> PyNone]
    /\ UNCHANGED <<expr, position, aliases, source, saved>>
    /\ IF i > Len(chain.transforms) THEN
         /\ runs' = [runs EXCEPT ![r] = [run EXCEPT !.pc = "done"]]
         /\ chain' = chain
       ELSE IF chain.transforms[i].map_transform /\ IsListLike(run.obj) THEN
         /\ runs' = [runs EXCEPT ![r] =
                       [run EXCEPT !.pc = "items", !.items = run.obj.l,
                                   !.acc = <<>>]]
         /\ chain' = chain
       ELSE IF AppliesToObject(chain.transforms[i], run.obj) THEN
         LET params == IF TakesObject(chain.transforms[i]) THEN <<run.obj>>
                       ELSE <<>>
         IN /\ runs' = [runs EXCEPT ![r] =
                          RunAfterCall(run, CallFunc(chain.transforms[i],
                                                     params))]
            /\ chain' = ChainAfterCall(chain, i, params)
       ELSE
         /\ runs' = [runs EXCEPT ![r] = [run EXCEPT !.i = @ + 1]]
         /\ chain' = chain

\* One turn of the loop over the items of a list, or its end
StepItem ==
  \E r \in Runners :
    LET run == [runs[r] EXCEPT !.overlapped = @ \/ Overlaps(r)]
        i == run.i
    IN
    /\ run.pc = "items"
    /\ ret' = [op |-> "Evaluate", err |-> NoError, val |-> PyNone]
    /\ UNCHANGED <<expr, position, aliases, source, saved>>
    /\ IF run.items = <<>> THEN
         /\ runs' = [runs EXCEPT ![r] =
                       [run EXCEPT !.pc = "loop", !.obj = PyList(run.acc),
                                   !.i = @ + 1]]
         /\ chain' = chain
       ELSE
         LET c == CallFunc(chain.transforms[i], <<run.items[1]>>) IN
         /\ runs' = [runs EXCEPT ![r] =
                       IF c.err # NoError
                       THEN [run EXCEPT !.pc = "done", !.err = c.err]
                       ELSE [run EXCEPT !.items = Tail(@),
                                        !.acc = Append(@, c.val)]]
         /\ chain' = ChainAfterCall(chain, i, <<run.items[1]>>)

NextChain == ChainAdd \/ ChainSetConditional \/ ChainSetRestriction
               \/ ChainName \/ ChainIsActive \/ StartEvaluate
               \/ StepEvaluate \/ StepItem

SpecChain == InitChain /\ [][NextChain]_vars

---------------------------------------------------------------------------
(* Claims about the chain, checked under SpecChain *)

\* What an Evaluate call that ended gave.
RunOutcome(run) ==
  IF run.err # NoError THEN Raised(run.err) ELSE Returned(run.obj)

\* C23: Evaluate does not change the chain it runs (the list of calls, the
\* args, kwargs and flags of each call, the conditional), and so, however
\* the statements of several Evaluate calls on one chain with different
\* objects interleave, each call returns or raises what it does when it runs
\* alone.
EvaluateRunsKeepChain ==
  \A r \in Runners :
    /\ runs[r].pc # "idle" => chain = runs[r].calls
    /\ runs[r].pc = "done" =>
         RunOutcome(runs[r]) = Evaluate(runs[r].calls, runs[r].subject)

\* C23 witness: two calls on a chain of two calls, with different objects,
\* each of which made steps while the other was in progress, returned.
EvaluateRunsKeepChainWitness ==
  /\ Len(chain.transforms) = 2
  /\ chain.transforms[1].map_transform
  /\ \A r \in Runners :
       runs[r].pc = "done" /\ runs[r].overlapped /\ runs[r].err = NoError
  /\ runs[1].subject = ListAB /\ runs[2].subject = Hello
  /\ runs[1].obj # runs[2].obj

\* The same when one of the calls raised.
EvaluateRunsWithError ==
  /\ \A r \in Runners : runs[r].pc = "done" /\ runs[r].overlapped
  /\ runs[1].err # NoError /\ runs[2].err = NoError

\* Call i of the chain is there after the step, with the same fields.
CallKept(i) ==
  /\ i <= Len(chain'.transforms)
  /\ chain'.transforms[i] = chain.transforms[i]

\* Call i of the chain is there after the step, with the same fields but for
\* the restriction attribute, which is set.
CallRestricted(i) ==
  /\ i <= Len(chain'.transforms)
  /\ chain'.transforms[i] =
       [chain.transforms[i] EXCEPT !.restriction = TRUE]

\* C25 as stated: no operation on the chain (Add, SetConditional,
\* SetRestriction, IsActive, Name, Evaluate) changes a field of a call that
\* was added to it.
CallsNeverChange ==
  [][\A i \in 1..Len(chain.transforms) : CallKept(i)]_vars

\* C25: Add, SetConditional, IsActive, Name and Evaluate change no field
\* (name, function, active level, mapping flag, args, kwargs, restriction
\* flag) of a call that was added to the chain; SetRestriction sets the
\* restriction flag of the first call of the chain and changes no other
\* field of any call.
CallsChangeOnlyByRestriction ==
  [][\A i \in 1..Len(chain.transforms) :
       IF ret'.op = "SetRestriction" /\ i = 1 THEN CallRestricted(i)
       ELSE CallKept(i)]_vars

\* C25 witness: SetRestriction was called on a chain of two calls that were
\* added without the restriction flag: the first has the flag, the second
\* does not.
CallsChangeOnlyByRestrictionWitness ==
  /\ ret.op = "SetRestriction" /\ ret.err = NoError
  /\ Len(chain.transforms) = 2
  /\ chain.transforms[1].restriction /\ ~chain.transforms[2].restriction
  /\ chain.transforms[1] \in
       {[c EXCEPT !.restriction = TRUE] : c \in ChainCalls}

\* SetRestriction on an empty chain raises.
SetRestrictionOfEmptyRaises ==
  /\ ret.op = "SetRestriction" /\ ret.err = "IndexError"
  /\ chain.transforms = <<>>

---------------------------------------------------------------------------
(* Claims about chains without calls, checked under SpecCall and SpecChain *)

\* C33: IsActive(level) is true exactly when the chain has at least one call
\* and the active level of its first call is None or level; on a chain
\* without calls (one parsed from always(), map() or if(x) only) it is false
\* for every level and does not raise.
IsActiveByFirstCall ==
  ret.op = "IsActive" =>
    (Truthy(ret.val) <=>
       /\ Len(chain.transforms) >= 1
       /\ chain.transforms[1].active \in {PyNone, ret.active})

\* C33 witness: IsActive was asked of the chain parsed from always(), which
\* has no calls, and was false.
IsActiveByFirstCallWitness ==
  /\ ret.op = "IsActive" /\ chain.transforms = <<>>
  /\ expr = CallText("always", <<>>) /\ ~Truthy(ret.val)

\* IsActive of a chain whose first call has no active level, and of one
\* whose first call has another level than the one asked.
IsActiveOfAlwaysActive ==
  /\ ret.op = "IsActive" /\ Len(chain.transforms) >= 1
  /\ chain.transforms[1].active = PyNone /\ Truthy(ret.val)
IsActiveOfOtherLevel ==
  /\ ret.op = "IsActive" /\ Len(chain.transforms) >= 1
  /\ chain.transforms[1].active \notin {PyNone, ret.active}
  /\ ~Truthy(ret.val)

\* The chain with the conditional and the active levels taken away.
WithoutLevels(calls) ==
  [conditional |-> PyNone,
   transforms |-> [i \in 1..Len(calls.transforms) |->
                     [calls.transforms[i] EXCEPT !.active = PyInt(0)]]]

\* C37: what Evaluate(obj) returns or raises depends on the calls and obj
\* only: it is what Evaluate gives on the chain of the same calls with no
\* conditional and with every active level 0, so two chains that differ in
\* the conditional or the active levels only give the same.
EvaluateIgnoresLevels ==
  \A r \in Runners :
    runs[r].pc = "done" =>
      RunOutcome(runs[r]) =
        Evaluate(WithoutLevels(runs[r].calls), runs[r].subject)

\* C37 witness: a call on a chain with a conditional and a call without an
\* active level returned another value than its object.
EvaluateIgnoresLevelsWitness ==
  \E r \in Runners :
    /\ runs[r].pc = "done" /\ runs[r].err = NoError
    /\ runs[r].calls.conditional # PyNone
    /\ \E i \in 1..Len(runs[r].calls.transforms) :
         runs[r].calls.transforms[i].active = PyNone
    /\ runs[r].calls # WithoutLevels(runs[r].calls)
    /\ runs[r].obj # runs[r].subject

\* The calls of the source are always(), map() and if(x) only.
OnlyCombinators ==
  /\ source.kind = "calls"
  /\ \A i \in 1..Len(source.calls) :
       source.calls[i] \in {CallText("always", <<>>), CallText("map", <<>>),
                            CallText("if", <<"a">>)}

\* C38: the chain Transform parses from always(), map() and if(x) calls
\* only has no calls, and Evaluate on a chain with no calls returns the
\* object it is given, whatever the object.
CombinatorsAddNoCall ==
  /\ (ChainParsed /\ OnlyCombinators /\ ret.err = NoError) =>
       chain.transforms = <<>>
  /\ (ret.op = "Evaluate" /\ chain.transforms = <<>>) =>
       (ret.err = NoError /\ ret.val = ret.obj)

\* C38 witness: Evaluate on the chain parsed from map().if(a) returned its
\* object, a list.
CombinatorsAddNoCallWitness ==
  /\ ret.op = "Evaluate" /\ OnlyCombinators /\ Len(source.calls) = 2
  /\ expr = CallText("map", <<>>) \o <<".">> \o CallText("if", <<"a">>)
  /\ chain.transforms = <<>> /\ chain.conditional = PyStr(<<"a">>)
  /\ ret.obj = ListAB /\ ret.val = ListAB

---------------------------------------------------------------------------
(* Claims about the position after an error, checked under SpecToken *)

\* C35: when Token raises for a quote that is not closed, the position is
\* the one before the call, though the scan went to the end of the input:
\* the error is annotated at the start of the token, not at the end of the
\* input.
UnterminatedQuoteKeepsPosition ==
  (ret.op = "Token" /\ ret.err = "Unterminated quote") =>
    (position = ret.start /\ ret.end = Len(expr) /\ ret.start < ret.end)

\* C35 witness: Token raised for 'abc at position 0, four characters before
\* the end of the input.
UnterminatedQuoteKeepsPositionWitness ==
  /\ ret.op = "Token" /\ ret.err = "Unterminated quote"
  /\ expr = ExUnterminated /\ ret.start = 0 /\ position = 0 /\ ret.end = 4

\* The same for a Token call that follows another: the position is the one
\* the first call left.
UnterminatedQuoteAfterToken ==
  /\ ret.op = "Token" /\ ret.err = "Unterminated quote"
  /\ ret.start > 0 /\ position = ret.start

---------------------------------------------------------------------------
(* Claims about parentheses in arguments, checked under SpecCall *)

\* The Token calls of the loop of Args from position pos: each with the
\* position it started at.
RECURSIVE ArgTokens(_, _)
ArgTokensAfter(e, pos, t) ==
  IF t.err # NoError \/ EndOfInput(e, t.position)
       \/ e[t.position + 1] # ","
  THEN <<[start |-> pos, token |-> t]>>
  ELSE <<[start |-> pos, token |-> t]>> \o ArgTokens(e, t.position + 1)

ArgTokens(e, pos) ==
  ArgTokensAfter(e, pos, Token(e, pos, {",", ")"}, TRUE, TRUE, FALSE))

\* The nesting of the parentheses of text that are not in quotes and not
\* escaped: the depth after each character, counted from text alone.
RECURSIVE Depths(_, _, _, _)
Depths(text, i, quote, depth) ==
  IF i > Len(text) THEN <<>>
  ELSE IF text[i] = ESCAPE /\ i < Len(text) THEN
    <<depth, depth>> \o Depths(text, i + 2, quote, depth)
  ELSE IF quote # NoQuote THEN
    <<depth>> \o Depths(text, i + 1,
                        IF text[i] = quote THEN NoQuote ELSE quote, depth)
  ELSE IF text[i] \in QUOTES THEN
    <<depth>> \o Depths(text, i + 1, text[i], depth)
  ELSE IF text[i] = "(" THEN
    <<depth + 1>> \o Depths(text, i + 1, quote, depth + 1)
  ELSE IF text[i] = ")" THEN
    <<depth - 1>> \o Depths(text, i + 1, quote, depth - 1)
  ELSE <<depth>> \o Depths(text, i + 1, quote, depth)

\* Each prefix of text has at least as many '(' as ')', and text as many.
Balanced(text) ==
  LET d == Depths(text, 1, NoQuote, 0) IN
  /\ \A i \in 1..Len(d) : d[i] >= 0
  /\ d # <<>> => d[Len(d)] = 0

\* The characters of the expression a Token call scanned.
Scanned(a) == SubSeq(expr, a.start + 1, a.token.end)

\* C36: in Args the count of open parentheses that Token keeps is never
\* negative, and each argument of an arg list that Args returns was written
\* with balanced parentheses, those in quotes and the escaped ones not
\* counted: each prefix has at least as many '(' as ')', and the whole has
\* as many.
ArgsBalanceParens ==
  ret.op = "Args" =>
    LET tokens == ArgTokens(expr, ret.start) IN
    /\ \A i \in 1..Len(tokens) : tokens[i].token.low >= 0
    /\ ret.err = NoError =>
         /\ Len(tokens) >= Len(ret.val)
         /\ \A i \in 1..Len(tokens) :
              /\ tokens[i].token.paren_count = 0
              /\ Balanced(Scanned(tokens[i]))

\* C36 witness: Args returned the two arguments of (a(b)c,d).
ArgsBalanceParensWitness ==
  /\ ret.op = "Args" /\ ret.err = NoError /\ ret.start = 1
  /\ expr = <<"(", "a", "(", "b", ")", "c", ",", "d", ")">>
  /\ Len(ret.val) = 2
  /\ ret.val[1] = PyStr(<<"a", "(", "b", ")", "c">>)

\* Quoted and escaped parentheses are not counted: Args returned the two
\* arguments of ("(",a) and of (\(,a).
ArgsQuotedParen ==
  /\ ret.op = "Args" /\ ret.err = NoError /\ ret.start = 1
  /\ expr = <<"(", DQ, "(", DQ, ",", "a", ")">>
  /\ ret.val[1] = PyStr(<<"(">>)
ArgsEscapedParen ==
  /\ ret.op = "Args" /\ ret.err = NoError /\ ret.start = 1
  /\ expr = <<"(", ESCAPE, "(", ",", "a", ")">>
  /\ Len(ret.val) = 2

\* An arg list with a '(' that is not closed raises at the end of the input.
ArgsOpenParenRaises ==
  /\ ret.op = "Args" /\ ret.start = 1
  /\ expr = <<"(", "(", "a", ",", "b", ")">>
  /\ ret.err = "More tokens expected"

---------------------------------------------------------------------------
(* The lexer specification: the operations of a Lexer called in any order,
   each from the position the call before it left *)

MaxLexLen == 3

LexAlphabet == {"a", SPACE, "(", ")"}

\* a.a[1] , 'a , a 'a , aa( , a a( , upper().upper() , upper(a,a) ,
\* upper().a[3]() , a. and  a,a)
LexExamples ==
  { <<"a", ".", "a", "[", "1", "]">>,
    <<SQ, "a">>,
    <<"a", SPACE, SQ, "a">>,
    <<"a", "a", "(">>,
    <<"a", SPACE, "a", "(">>,
    CallText("upper", <<>>) \o <<".">> \o CallText("upper", <<>>),
    CallText("upper", <<"a", ",", "a">>),
    CallText("upper", <<>>) \o <<".", "a", "[", "3", "]", "(", ")">>,
    <<"a", ".">>,
    <<"a", ",", "a", ")">> }

LexExprs == Strings(LexAlphabet, MaxLexLen) \cup LexExamples

\* What the operations are called with.
LexCharacters == {{"("}, {"a", "."}}
LexNames == {<<"a">>, <<"a", "a">>}
LexTokenCalls ==
  { TokenCall(RESERVED_OPERATOR_CHARS, FALSE, FALSE, FALSE),
    TokenCall({",", ")"}, TRUE, TRUE, TRUE) }

InitLex ==
  /\ expr \in LexExprs
  /\ position = 0
  /\ aliases = {}
  /\ chain = NewTransform
  /\ ret = NoCall
  /\ saved = NoCheckpoint
  /\ runs = NoRuns
  /\ source = PlainText

\* lex.SkipSpace(token)
LexSkipSpace ==
  \E token \in {"", "Term"} :
    LET r == SkipSpace(expr, position, token) IN
    /\ position' = r.position
    /\ ret' = [op |-> "SkipSpace", start |-> position, token |-> token,
               err |-> r.err, val |-> r.val]
    /\ UNCHANGED <<expr, aliases, chain, source, saved, runs>>

\* lex.IsCharacter(characters, peek, eoi_ok)
LexIsCharacter ==
  \E characters \in LexCharacters, peek \in BOOLEAN, eoi_ok \in BOOLEAN :
    LET r == IsCharacter(expr, position, characters, peek, eoi_ok) IN
    /\ position' = r.position
    /\ ret' = [op |-> "IsCharacter", start |-> position,
               characters |-> characters, peek |-> peek, eoi_ok |-> eoi_ok,
               err |-> r.err, val |-> r.val]
    /\ UNCHANGED <<expr, aliases, chain, source, saved, runs>>

\* lex.IsString(name, peek)
LexIsString ==
  \E name \in LexNames, peek \in BOOLEAN :
    LET r == IsString(expr, position, name, peek) IN
    /\ position' = r.position
    /\ ret' = [op |-> "IsString", start |-> position, name |-> name,
               peek |-> peek, err |-> r.err, val |-> r.val]
    /\ UNCHANGED <<expr, aliases, chain, source, saved, runs>>

\* lex.Token(terminators, balance_parens, space, convert)
LexToken ==
  \E a \in LexTokenCalls :
    LET r == Token(expr, position, a.terminators, a.balance_parens, a.space,
                   a.convert)
    IN /\ position' = r.position
       /\ ret' = [op |-> "Token", start |-> position, err |-> r.err]
       /\ UNCHANGED <<expr, aliases, chain, source, saved, runs>>

\* lex.Args()
LexArgs ==
  LET r == Args(expr, position, FALSE) IN
  /\ position' = r.position
  /\ ret' = [op |-> "Args", start |-> position, err |-> r.err]
  /\ UNCHANGED <<expr, aliases, chain, source, saved, runs>>

\* lex.Key()
LexKey ==
  LET r == Key(expr, position, aliases) IN
  /\ position' = r.position
  /\ ret' = [op |-> "Key", start |-> position, err |-> r.err]
  /\ UNCHANGED <<expr, aliases, chain, source, saved, runs>>

\* lex.Transform('upper')
LexTransform ==
  LET r == Transform(expr, position, aliases, PyStr(Chars("upper")),
                     PyInt(0), FALSE)
  IN /\ position' = r.position
     /\ chain' = IF r.err = NoError THEN r.val ELSE chain
     /\ ret' = [op |-> "Transform", start |-> position, err |-> r.err]
     /\ UNCHANGED <<expr, aliases, source, saved, runs>>

NextLex == LexSkipSpace \/ LexIsCharacter \/ LexIsString \/ LexToken
             \/ LexArgs \/ LexKey \/ LexTransform

SpecLex == InitLex /\ [][NextLex]_vars

---------------------------------------------------------------------------
(* Claims about the lexer operations, checked under SpecLex *)

\* The call started at the end of the input.
StartedAtEnd == ret.start >= Len(expr)
\* The character at the position the call started at.
NextCharacter == expr[ret.start + 1]

\* IsCharacter returned no match and left the position.
NoMatch == ret.err = NoError /\ ret.val = "" /\ position = ret.start
\* IsCharacter raised.
MoreExpected == ret.err = "More tokens expected" /\ position = ret.start

\* What IsCharacter does before the end of the input: the next character is
\* returned when it is in characters, and consumed unless peek is set, and
\* else there is no match and the position stays.
IsCharacterBeforeEnd ==
  IF NextCharacter \in ret.characters THEN
    /\ ret.err = NoError /\ ret.val = NextCharacter
    /\ position = IF ret.peek THEN ret.start ELSE ret.start + 1
  ELSE NoMatch

\* C31 as stated: at the end of the input IsCharacter returns no match when
\* eoi_ok is set and raises ExpressionSyntaxError in every other case.
IsCharacterRaisesUnlessEoiOk ==
  ret.op = "IsCharacter" =>
    IF StartedAtEnd THEN (IF ret.eoi_ok THEN NoMatch ELSE MoreExpected)
    ELSE IsCharacterBeforeEnd

\* C31: IsCharacter(chars) returns and consumes exactly one character when
\* the next character is in chars, returns no match and leaves the position
\* when it is not, never changes the position when peek is set, and at the
\* end of the input returns no match when eoi_ok or peek is set and raises
\* ExpressionSyntaxError when neither is set.
IsCharacterRaisesUnlessPeekOrEoiOk ==
  ret.op = "IsCharacter" =>
    /\ ret.peek => position = ret.start
    /\ IF StartedAtEnd
       THEN (IF ret.eoi_ok \/ ret.peek THEN NoMatch ELSE MoreExpected)
       ELSE IsCharacterBeforeEnd

\* C31 witness: a peek at the end of the input, eoi_ok not set, returned no
\* match.
IsCharacterRaisesUnlessPeekOrEoiOkWitness ==
  /\ ret.op = "IsCharacter" /\ StartedAtEnd /\ ret.peek /\ ~ret.eoi_ok
  /\ NoMatch /\ Len(expr) > 0

\* The other cases: a character consumed, a character peeked, no match, and
\* the error at the end of the input.
IsCharacterConsumed ==
  /\ ret.op = "IsCharacter" /\ ~StartedAtEnd /\ ~ret.peek
  /\ ret.val = "(" /\ position = ret.start + 1
IsCharacterPeeked ==
  /\ ret.op = "IsCharacter" /\ ~StartedAtEnd /\ ret.peek
  /\ ret.val = "(" /\ position = ret.start
IsCharacterOther ==
  /\ ret.op = "IsCharacter" /\ ~StartedAtEnd /\ ~ret.peek
  /\ NextCharacter = ")" /\ NoMatch
IsCharacterAtEndRaises ==
  /\ ret.op = "IsCharacter" /\ StartedAtEnd /\ MoreExpected

\* The position of the first character at or after the start of the call
\* that is not white space; the length of the expression when there is none.
FirstNonSpace ==
  CHOOSE i \in ret.start..Len(expr) :
    /\ \A k \in ret.start..(i - 1) : isspace(expr[k + 1])
    /\ i < Len(expr) => ~isspace(expr[i + 1])

\* The input from FirstNonSpace on starts with the name, and white space, a
\* '(' or the end of the input follows.
NameFollows ==
  LET i == FirstNonSpace
      j == i + Len(ret.name)
  IN /\ j <= Len(expr)
     /\ \A k \in 1..Len(ret.name) : expr[i + k] = ret.name[k]
     /\ j = Len(expr) \/ isspace(expr[j + 1]) \/ expr[j + 1] = "("

\* C32: IsString(word) is true exactly when, the white space skipped, the
\* rest of the input starts with word and white space, '(' or the end of
\* the input follows it; when it is true and peek is not set the position is
\* just past word, and with peek or when it is false no character of word
\* is consumed: the position is at the first character after the white
\* space.
IsStringMatchesWord ==
  ret.op = "IsString" =>
    /\ ret.err = NoError
    /\ ret.val <=> NameFollows
    /\ position = IF ret.val /\ ~ret.peek
                  THEN FirstNonSpace + Len(ret.name)
                  ELSE FirstNonSpace

\* C32 witness: IsString('a') on aa( , the name 'a' being the start of the
\* longer word aa, was false and consumed nothing.
IsStringMatchesWordWitness ==
  /\ ret.op = "IsString" /\ expr = <<"a", "a", "(">> /\ ret.start = 0
  /\ ret.name = <<"a">> /\ ~ret.val /\ position = 0

\* IsString('aa') on aa( was true and the position is at the '(';
\* IsString('a') after white space, with peek, was true and the position is
\* at the name.
IsStringBeforeParen ==
  /\ ret.op = "IsString" /\ expr = <<"a", "a", "(">> /\ ret.start = 0
  /\ ret.name = <<"a", "a">> /\ ~ret.peek /\ ret.val /\ position = 2
IsStringPeeked ==
  /\ ret.op = "IsString" /\ expr = <<SPACE, "a">> /\ ret.start = 0
  /\ ret.name = <<"a">> /\ ret.peek /\ ret.val /\ position = 1

\* C34: after any calls of Token, Args, Key, Transform, SkipSpace,
\* IsCharacter and IsString from position 0 the position is between 0 and
\* the length of the expression, and no call leaves a position before the
\* one it started at, whether it returns or raises.
PositionOnlyAdvances ==
  /\ 0 <= position /\ position <= Len(expr)
  /\ ret.op # "init" => ret.start <= position

\* C34 witness: Args raised at the end of upper(a,a after two arguments, the
\* position at the end of the input.
PositionOnlyAdvancesWitness ==
  /\ ret.op = "Args" /\ ret.err # NoError /\ ret.start > 0
  /\ position = Len(expr) /\ position > ret.start + 1

\* A Transform call that returned at the end of the input, and a Key call
\* that raised after it consumed characters.
PositionAfterTransform ==
  /\ ret.op = "Transform" /\ ret.err = NoError /\ ret.start = 6
  /\ position = Len(expr) /\ Len(chain.transforms) = 2
PositionAfterKeyRaised ==
  /\ ret.op = "Key" /\ ret.err # NoError /\ position > ret.start

\* C39 as stated: Token, Args, Key and Transform end, from every position,
\* with a result or with ExpressionSyntaxError.
ParsersRaiseOnlySyntaxErrors ==
  ret.op \in {"Token", "Args", "Key", "Transform"} =>
    ret.err \in SyntaxErrors \cup {NoError}

\* Token, Args and Key end with a result or with ExpressionSyntaxError.
TokenArgsKeyRaiseOnlySyntaxErrors ==
  ret.op \in {"Token", "Args", "Key"} =>
    ret.err \in SyntaxErrors \cup {NoError}

====
